---- MODULE Spec2Model ----
(***************************************************************************)
(* Model of the pump.fun sniper bot: the per-asset lifecycle (purchaseCoin *)
(* / BuyCoin, listenCreatorSell, HandleSellCoins / fetchCoinsToSell,       *)
(* SellCoinFast), creator vetting (shouldBuyCoin / isSafeFunder), the      *)
(* late-entry guard (lateToBuy), the JitoManager (isJitoLeader, its        *)
(* refresh loops and tip stream), the registry under pendingCoinsLock,     *)
(* the routing of a dispatch (createTransaction / signAndSendTx), funder   *)
(* discovery (findFundersFromResps) and HandleNewMints on one log message. *)
(*                                                                         *)
(* Units.  Native amounts are counted in units of 0.05 SOL (50,000,000     *)
(* lamports), so that every amount the code compares (0.05, 0.1, 0.5, 1.0, *)
(* 2.5, 30 SOL, and the 0.05 SOL purchase size of main.go) is a whole      *)
(* number.  Token quantities are raw token units.  Funder discovery counts *)
(* lamports.                                                               *)
(***************************************************************************)
EXTENDS Integers, Sequences, FiniteSets, TLC

VARIABLES
    pendingCoins,   \* Bot.pendingCoins: the mint addresses present in the map
    coin,           \* the Coin records (fields of struct Coin), by mint address
    buy,            \* per asset: position and locals of purchaseCoin / BuyCoin
    mon,            \* per asset: position and locals of listenCreatorSell
    race,           \* the SellCoinFast goroutines spawned by HandleSellCoins
    vet,            \* shouldBuyCoin: position, inputs and locals
    funder,         \* the isSafeFunder goroutines spawned by shouldBuyCoin
    late,           \* lateToBuy applied to one (snapshot, creator purchase) pair
    quote,          \* calculateBuyQuote applied to one (amount, snapshot, multiplier)
    curve,          \* fetchBondingCurve applied to one account blob
    mint,           \* checkAndSignalBuyCoin for one detected mint
    jito,           \* the JitoManager: its fields, its lock and its goroutines
    reg,            \* the registry of two assets with pendingCoinsLock explicit
    route,          \* one BuyCoin or sellCoin attempt from the routing decision to the dispatch
    find,           \* findFundersFromResps: its arguments, loop position and result
    logs            \* HandleNewMints on one log message, and what it sets off

vars == <<pendingCoins, coin, buy, mon, race, vet, funder, late, quote, curve, mint, jito, reg, route, find, logs>>

lifeVars == <<pendingCoins, coin, buy, mon, race>>

----------------------------------------------------------------------------
(* Bounds of the model *)

\* SellCoinFast goroutines that can exist over one run (HandleSellCoins
\* spawns one per selection; the guard of the scan caps them)
MaxRaces == 2

\* sellCoinWrapper goroutines of one race that can be in flight (dispatched,
\* not yet returned) at the same time
MaxInflight == 2

\* ticks of the 400ms ticker served in one race (6 seconds allow 15)
MaxTicks == 3

\* seconds since the detection of a mint up to which the clock is followed
MaxElapsed == 3

\* width of the machine word standing for the 64 bits of uint64 / int64: an
\* unsigned word is in 0 .. 2^WordBits - 1, and the conversion to the signed
\* type wraps at 2^(WordBits - 1)
WordBits == 12

\* the assets under management (lifecycles of different assets are
\* independent; they share only the registry map and its lock)
Coins == {"mintA"}

Races == 1..MaxRaces

----------------------------------------------------------------------------
(* Program constants *)

\* tokensHeld == nil (the zero value of the *big.Int field)
NilTokens == -1

\* botHoldsTokens: heldTokensInt > 100
HoldThreshold == 100

\* lateToBuy: 30 SOL already in the bonding curve, in units of 0.05 SOL
CurveBaseSol == 600

\* lateToBuy: drift tolerance 0.1 SOL, in units of 0.05 SOL
LateTolerance == 2

\* main.go: NewBot(..., 0.05, 200000): buyAmountLamport, in units of 0.05 SOL
buyAmountLamport == 1

\* BuyCoin: calculateBuyQuote(b.buyAmountLamport, bcd, 0.98), in hundredths
SlippagePct == 98

\* listenCreatorSell: checkAttempts < 10
MaxCheckAttempts == 10

----------------------------------------------------------------------------
(* Pure functions *)

\* Coin.botHoldsTokens: nil means not held, otherwise held iff more than 100.
\* (Int64() is the identity on every quantity of this model.)
botHoldsTokens(c) ==
    IF c.tokensHeld = NilTokens THEN FALSE ELSE c.tokensHeld > HoldThreshold

\* The creator purchase sizes p (units of 0.05 SOL) for which the float64
\* expression (reservesLamports/1e9 - p*0.05) - 30 evaluated at a drift of
\* exactly 0.1 SOL (reserves = p + 30.1 SOL) comes out above the float64
\* constant 0.1: there the rounding of the operands decides the comparison.
\* Everywhere off that boundary the float64 result equals the exact one on
\* this grid.
RoundsAboveTolerance ==
    {0, 3, 4, 5, 8, 9, 10, 13, 14, 15, 18, 19, 20, 23, 24, 25, 28, 29, 30,
     33, 34, 35, 38, 40, 42, 43, 45, 47, 48, 50, 52, 53, 55, 57, 58, 60}


\* lateToBuy without the deduction of the 30 SOL of the curve
lateToBuyNoBase(creatorPurchaseSol, bcd) ==
    LET reservesLessCreatorSol == bcd.vSol - creatorPurchaseSol
    IN  reservesLessCreatorSol > LateTolerance

\* Coin.lateToBuy(bcd): reservesSol - creatorPurchaseSol - 30 > 0.1
lateToBuy(creatorPurchaseSol, bcd) ==
    LET reservesLessCreatorSol == bcd.vSol - creatorPurchaseSol
        drift == reservesLessCreatorSol - CurveBaseSol
    IN  IF drift = LateTolerance
        THEN creatorPurchaseSol \in RoundsAboveTolerance
        ELSE drift > LateTolerance

\* int64(x) of a uint64 x: values at or above 2^63 wrap to x - 2^64 (widths
\* scaled to WordBits)
Int64(x) == IF x >= 2^(WordBits - 1) THEN x - 2^WordBits ELSE x

\* big.Int Div: Euclidean division of a non-negative m by a non-zero n
BigDiv(m, n) == IF n > 0 THEN m \div n ELSE -(m \div (-n))

\* big.Float product of an integer t with the float64 nearest to pct/100,
\* truncated toward zero by Float.Int.  0, 0.5 and 1.0 are exact float64
\* values; the float64 nearest to 0.98 lies below 0.98, so a product that
\* would be a whole number in exact arithmetic truncates one lower in
\* magnitude.
ScaleByPercentage(t, pct) ==
    LET mag == IF t < 0 THEN -t ELSE t
        q == IF mag > 0 /\ (mag * pct) % 100 = 0 /\ pct = SlippagePct
             THEN (mag * pct) \div 100 - 1
             ELSE (mag * pct) \div 100
    IN  IF t < 0 THEN -q ELSE q

\* calculateBuyQuote panics: big.Int Div by zero
quotePanics(solAmount, bcd) == bcd.vSol + Int64(solAmount) = 0

\* calculateBuyQuote(solAmount, bondingCurve, percentage) for percentage =
\* pct/100 and newVirtualSolReserves # 0: solAmount goes through
\* int64(solAmount); the reserves are cloned, the rest is big.Int arithmetic
\* and the final big.Float scaling.
calculateBuyQuote(solAmount, bcd, pct) ==
    LET solAmountBig == Int64(solAmount)
        newVirtualSolReserves == bcd.vSol + solAmountBig
        invariant == bcd.vSol * bcd.vTok
        newVirtualTokenReserves == BigDiv(invariant, newVirtualSolReserves)
        tokensToBuy == bcd.vTok - newVirtualTokenReserves
    IN  ScaleByPercentage(tokensToBuy, pct)

----------------------------------------------------------------------------
(* The asset lifecycle: state *)

\* creator purchase size of the admitted asset: 1.0 SOL
CreatorPurchases == {20}

\* bonding-curve snapshots fetchBondingCurve can return for it: virtual sol
\* reserves of 30 SOL plus the creator's purchase and a drift of 0, 0.1 or
\* 0.15 SOL,
\* and virtual token reserves that make the 98% quote land on either side of
\* the hold threshold
Curves == {[vSol |-> s, vTok |-> t] : s \in {620, 622, 623}, t \in {60000, 70000}}

NoCurve == [vSol |-> 0, vTok |-> 0]

\* the zero value of a Coin as built by fetchNewCoin / fetchCreatorBuy
NewCoin(p) ==
    [creatorPurchaseSol |-> p,
     creatorSold |-> FALSE, botPurchased |-> FALSE,
     exitedBuyCoin |-> FALSE, exitedSellCoin |-> FALSE,
     exitedCreatorListener |-> FALSE, isSellingCoin |-> FALSE,
     associatedTokenAccount |-> "zero", tokensHeld |-> NilTokens,
     buyPrice |-> 0, buyTransactionSignature |-> "nil"]

\* purchaseCoin / BuyCoin has not been called for the asset
BuyIdle ==
    [pc |-> "queued", bcd |-> NoCurve, shouldCreateATA |-> FALSE,
     tokensToBuy |-> 0, txBuilt |-> FALSE, sent |-> 0, err |-> "none", ret |-> "none"]

\* cause: the return path listenCreatorSell is on while its deferred calls
\* are pending
MonIdle == [pc |-> "idle", subscribed |-> FALSE, checkAttempts |-> 0, cause |-> "none"]

\* sendVanilla: the local of SellCoinFast (true before the first tick);
\* ticks: the sellCoinWrapper goroutines the ticker goroutine has spawned;
\* forced: those of them that were passed sendVanilla = true
RaceIdle ==
    [pc |-> "idle", coin |-> "none", ctxDone |-> FALSE, inflight |-> 0, result |-> 0,
     sendVanilla |-> TRUE, ticks |-> 0, forced |-> 0]

\* the lifecycle starts with the assets sent on coinsToBuy by
\* checkAndSignalBuyCoin and not yet picked up by HandleBuyCoins
LifeInit ==
    /\ pendingCoins = {}
    /\ coin \in [Coins -> {NewCoin(p) : p \in CreatorPurchases}]
    /\ buy = [c \in Coins |-> BuyIdle]
    /\ mon = [c \in Coins |-> MonIdle]
    /\ race = [r \in Races |-> RaceIdle]

----------------------------------------------------------------------------
(* HandleBuyCoins / purchaseCoin / BuyCoin *)

\* addNewPendingCoin leaving the map as it is
addNewPendingCoinSkipped(c) == pendingCoins

\* addNewPendingCoin: under pendingCoinsLock, pendingCoins[mintAddr] = coin
addNewPendingCoin(c) == pendingCoins \cup {c}

\* purchaseCoin up to the call of BuyCoin: the record enters the registry,
\* the creator listener is spawned, BuyCoin starts.
purchaseCoin(c) ==
    /\ buy[c].pc = "queued"
    /\ pendingCoins' = addNewPendingCoin(c)
    /\ mon' = [mon EXCEPT ![c].pc = "subscribe"]
    /\ buy' = [buy EXCEPT ![c].pc = "start"]
    /\ UNCHANGED <<coin, race, vet, funder, late, quote, curve, mint, jito, reg, route, find, logs>>

\* The deferred Coin.setExitedBuyCoinTrue: c.exitedBuyCoin = true
setExitedBuyCoinTrue(cn, c) == [cn EXCEPT ![c].exitedBuyCoin = TRUE]


\* BuyCoinReturn with the deferred call missing
BuyCoinReturnNoDefer(c, err, cn) ==
    /\ buy' = [buy EXCEPT ![c].pc = "done", ![c].ret = err, ![c].bcd = NoCurve,
                          ![c].shouldCreateATA = FALSE, ![c].tokensToBuy = 0]
    /\ coin' = cn

\* A return of BuyCoin with an error: the locals die, the deferred
\* setExitedBuyCoinTrue runs.
BuyCoinReturn(c, err, cn) ==
    /\ buy' = [buy EXCEPT ![c].pc = "done", ![c].ret = err, ![c].bcd = NoCurve,
                          ![c].shouldCreateATA = FALSE, ![c].tokensToBuy = 0]
    /\ coin' = setExitedBuyCoinTrue(cn, c)

\* BuyCoin from its entry to the fetched bonding curve: calculateATAAddress,
\* the associated-token lookup (skipped or not: shouldCreateATA never returns
\* an error), fetchBondingCurve.
BuyCoinFetch(c) ==
    /\ buy[c].pc = "start"
    /\ \/ BuyCoinReturn(c, "errATAAddress", coin)
       \/ BuyCoinReturn(c, "errFetchBondingCurve", coin)
       \/ \E bcd \in Curves, create \in BOOLEAN :
             /\ buy' = [buy EXCEPT ![c].pc = "guard", ![c].bcd = bcd,
                                   ![c].shouldCreateATA = create]
             /\ UNCHANGED coin
    /\ UNCHANGED <<pendingCoins, mon, race, vet, funder, late, quote, curve, mint, jito, reg, route, find, logs>>


\* BuyCoinGuard with coin.buyPrice assigned before the late-entry guard
BuyCoinGuardPricedFirst(c) ==
    /\ buy[c].pc = "guard"
    /\ LET priced == [coin EXCEPT ![c].buyPrice = buyAmountLamport]
           tokensToBuy == calculateBuyQuote(buyAmountLamport, buy[c].bcd, SlippagePct)
       IN  IF lateToBuy(coin[c].creatorPurchaseSol, buy[c].bcd)
           THEN BuyCoinReturn(c, "errLateToCoin", priced)
           ELSE \/ /\ buy[c].shouldCreateATA
                   /\ BuyCoinReturn(c, "errCreateATA", priced)
                \/ BuyCoinReturn(c, "errCreateTransaction", priced)
                \/ /\ buy' = [buy EXCEPT ![c].pc = "send", ![c].bcd = NoCurve,
                                         ![c].shouldCreateATA = FALSE,
                                         ![c].tokensToBuy = tokensToBuy,
                                         ![c].txBuilt = TRUE]
                   /\ coin' = priced
    /\ UNCHANGED <<pendingCoins, mon, race, vet, funder, late, quote, curve, mint, jito, reg, route, find, logs>>

\* BuyCoin from the late-entry guard to the built transaction: lateToBuy,
\* coin.buyPrice, calculateBuyQuote at 0.98, createATA, createTransaction.
BuyCoinGuard(c) ==
    /\ buy[c].pc = "guard"
    /\ IF lateToBuy(coin[c].creatorPurchaseSol, buy[c].bcd)
       THEN BuyCoinReturn(c, "errLateToCoin", coin)
       ELSE LET priced == [coin EXCEPT ![c].buyPrice = buyAmountLamport]
                tokensToBuy == calculateBuyQuote(buyAmountLamport, buy[c].bcd, SlippagePct)
            IN  \/ /\ buy[c].shouldCreateATA
                   /\ BuyCoinReturn(c, "errCreateATA", priced)
                \/ BuyCoinReturn(c, "errCreateTransaction", priced)
                \/ /\ buy' = [buy EXCEPT ![c].pc = "send", ![c].bcd = NoCurve,
                                         ![c].shouldCreateATA = FALSE,
                                         ![c].tokensToBuy = tokensToBuy,
                                         ![c].txBuilt = TRUE]
                   /\ coin' = priced
    /\ UNCHANGED <<pendingCoins, mon, race, vet, funder, late, quote, curve, mint, jito, reg, route, find, logs>>

\* BuyCoinSend returning every error of signAndSendTx
BuyCoinSendStrict(c) ==
    /\ buy[c].pc = "send"
    /\ \E outcome \in {"confirmed", "alreadyProcessed", "error"} :
          IF outcome # "confirmed"
          THEN /\ buy' = [buy EXCEPT ![c].pc = "done", ![c].ret = "errSend",
                                     ![c].err = IF outcome = "error" THEN "none" ELSE outcome,
                                     ![c].tokensToBuy = 0, ![c].sent = @ + 1]
               /\ coin' = setExitedBuyCoinTrue(coin, c)
          ELSE /\ buy' = [buy EXCEPT ![c].pc = "setBotPurchased", ![c].err = "nil",
                                     ![c].sent = @ + 1]
               /\ UNCHANGED coin
    /\ UNCHANGED <<pendingCoins, mon, race, vet, funder, late, quote, curve, mint, jito, reg, route, find, logs>>

\* BuyCoin: signAndSendTx.  err is nil, or its text contains "transaction
\* has already been processed" and BuyCoin goes on as if it were nil, or it
\* is another error and BuyCoin returns it.
BuyCoinSend(c) ==
    /\ buy[c].pc = "send"
    /\ \E outcome \in {"confirmed", "alreadyProcessed", "error"} :
          IF outcome = "error"
          THEN /\ buy' = [buy EXCEPT ![c].pc = "done", ![c].ret = "errSend",
                                     ![c].tokensToBuy = 0, ![c].sent = @ + 1]
               /\ coin' = setExitedBuyCoinTrue(coin, c)
          ELSE /\ buy' = [buy EXCEPT ![c].pc = "setBotPurchased",
                                     ![c].err = IF outcome = "confirmed" THEN "nil" ELSE outcome,
                                     ![c].sent = @ + 1]
               /\ UNCHANGED coin
    /\ UNCHANGED <<pendingCoins, mon, race, vet, funder, late, quote, curve, mint, jito, reg, route, find, logs>>


\* BuyCoinSetBotPurchased with the assignment of botPurchased left out
BuyCoinSkipBotPurchased(c) ==
    /\ buy[c].pc = "setBotPurchased"
    /\ buy' = [buy EXCEPT ![c].pc = "setTokensHeld"]
    /\ UNCHANGED <<pendingCoins, coin, mon, race, vet, funder, late, quote, curve, mint, jito, reg, route, find, logs>>

\* BuyCoin: coin.botPurchased = true
BuyCoinSetBotPurchased(c) ==
    /\ buy[c].pc = "setBotPurchased"
    /\ coin' = [coin EXCEPT ![c].botPurchased = TRUE]
    /\ buy' = [buy EXCEPT ![c].pc = "setTokensHeld"]
    /\ UNCHANGED <<pendingCoins, mon, race, vet, funder, late, quote, curve, mint, jito, reg, route, find, logs>>

\* BuyCoin: coin.tokensHeld = tokensToBuy
BuyCoinSetTokensHeld(c) ==
    /\ buy[c].pc = "setTokensHeld"
    /\ coin' = [coin EXCEPT ![c].tokensHeld = buy[c].tokensToBuy]
    /\ buy' = [buy EXCEPT ![c].pc = "setATA"]
    /\ UNCHANGED <<pendingCoins, mon, race, vet, funder, late, quote, curve, mint, jito, reg, route, find, logs>>

\* BuyCoin: coin.associatedTokenAccount = *ataAddress
BuyCoinSetATA(c) ==
    /\ buy[c].pc = "setATA"
    /\ coin' = [coin EXCEPT ![c].associatedTokenAccount = "ata"]
    /\ buy' = [buy EXCEPT ![c].pc = "setSignature"]
    /\ UNCHANGED <<pendingCoins, mon, race, vet, funder, late, quote, curve, mint, jito, reg, route, find, logs>>

\* BuyCoin: coin.buyTransactionSignature = &tx.Signatures[0]
BuyCoinSetSignature(c) ==
    /\ buy[c].pc = "setSignature"
    /\ coin' = [coin EXCEPT ![c].buyTransactionSignature = "sig"]
    /\ buy' = [buy EXCEPT ![c].pc = "return"]
    /\ UNCHANGED <<pendingCoins, mon, race, vet, funder, late, quote, curve, mint, jito, reg, route, find, logs>>

\* BuyCoin: return nil, and the deferred setExitedBuyCoinTrue
BuyCoinReturnNil(c) ==
    /\ buy[c].pc = "return"
    /\ buy' = [buy EXCEPT ![c].pc = "done", ![c].ret = "nil", ![c].err = "none",
                          ![c].tokensToBuy = 0]
    /\ coin' = setExitedBuyCoinTrue(coin, c)
    /\ UNCHANGED <<pendingCoins, mon, race, vet, funder, late, quote, curve, mint, jito, reg, route, find, logs>>

----------------------------------------------------------------------------
(* listenCreatorSell *)

\* setCreatorSold setting the flag on the record whether or not the mint is
\* a key of pendingCoins
setCreatorSoldAlways(c) == [coin EXCEPT ![c].creatorSold = TRUE]

\* setCreatorSold: under pendingCoinsLock, the flag is set only if the mint
\* is (still) a key of pendingCoins
setCreatorSold(c) ==
    IF c \in pendingCoins THEN [coin EXCEPT ![c].creatorSold = TRUE] ELSE coin

\* listenCreatorSell: AccountSubscribe; on an error setCreatorSold and return
listenCreatorSellSubscribe(c) ==
    /\ mon[c].pc = "subscribe"
    /\ \/ /\ mon' = [mon EXCEPT ![c].pc = "recv", ![c].subscribed = TRUE]
          /\ UNCHANGED coin
       \/ /\ mon' = [mon EXCEPT ![c].pc = "exit", ![c].cause = "subscribeError"]
          /\ coin' = setCreatorSold(c)
    /\ UNCHANGED <<pendingCoins, buy, race, vet, funder, late, quote, curve, mint, jito, reg, route, find, logs>>

\* listenCreatorSell returning on a failed sub.Recv() without setCreatorSold
listenCreatorSellRecvErrorSilent(c) ==
    /\ mon[c].pc = "recv"
    /\ mon' = [mon EXCEPT ![c].pc = "exit", ![c].cause = "recvError"]
    /\ UNCHANGED <<pendingCoins, coin, buy, race, vet, funder, late, quote, curve, mint, jito, reg, route, find, logs>>

\* listenCreatorSell: sub.Recv() fails: setCreatorSold and return
listenCreatorSellRecvError(c) ==
    /\ mon[c].pc = "recv"
    /\ mon' = [mon EXCEPT ![c].pc = "exit", ![c].cause = "recvError"]
    /\ coin' = setCreatorSold(c)
    /\ UNCHANGED <<pendingCoins, buy, race, vet, funder, late, quote, curve, mint, jito, reg, route, find, logs>>

\* listenerShouldStop without the test for a BuyCoin that exited unpurchased
listenerShouldStopSoldOnly(c) == c.botPurchased /\ ~botHoldsTokens(c)

\* the test made on every notification: BuyCoin exited without a purchase,
\* or a purchase is recorded and no tokens are held
listenerShouldStop(c) ==
    \/ c.exitedBuyCoin /\ ~c.botPurchased
    \/ c.botPurchased /\ ~botHoldsTokens(c)

\* listenCreatorSell: sub.Recv() delivers a notification; the listener
\* returns or enters the lookup loop with checkAttempts = 0
listenCreatorSellRecv(c) ==
    /\ mon[c].pc = "recv"
    /\ IF listenerShouldStop(coin[c])
       THEN mon' = [mon EXCEPT ![c].pc = "exit", ![c].cause = "stop"]
       ELSE mon' = [mon EXCEPT ![c].pc = "lookup", ![c].checkAttempts = 0]
    /\ UNCHANGED <<pendingCoins, coin, buy, race, vet, funder, late, quote, curve, mint, jito, reg, route, find, logs>>

\* afterCheckAttempt with a loop test that admits one more pass
afterCheckAttemptOneMore(c) ==
    IF mon[c].checkAttempts + 1 <= MaxCheckAttempts
    THEN [mon EXCEPT ![c].checkAttempts = @ + 1]
    ELSE [mon EXCEPT ![c].pc = "recv", ![c].checkAttempts = 0]

\* the position after one pass of the lookup loop that did not return
afterCheckAttempt(c) ==
    IF mon[c].checkAttempts + 1 < MaxCheckAttempts
    THEN [mon EXCEPT ![c].checkAttempts = @ + 1]
    ELSE [mon EXCEPT ![c].pc = "recv", ![c].checkAttempts = 0]

\* listenCreatorSell: one pass of the lookup loop: fetchCreatorATATrans
\* fails (continue), or isSellOrTransfer finds a sale or transfer
\* (setCreatorSold, return), or it finds none (sleep 200ms)
listenCreatorSellCheck(c) ==
    /\ mon[c].pc = "lookup"
    /\ \E outcome \in {"fetchError", "sellOrTransfer", "noSale"} :
          IF outcome = "sellOrTransfer"
          THEN /\ mon' = [mon EXCEPT ![c].pc = "exit", ![c].cause = "sale"]
               /\ coin' = setCreatorSold(c)
          ELSE /\ mon' = afterCheckAttempt(c)
               /\ UNCHANGED coin
    /\ UNCHANGED <<pendingCoins, buy, race, vet, funder, late, quote, curve, mint, jito, reg, route, find, logs>>

\* the deferred calls of listenCreatorSell: sub.Unsubscribe() if the
\* subscription was made, then Coin.setExitedCreatorListenerTrue
setExitedCreatorListenerTrue(c) ==
    /\ mon[c].pc = "exit"
    /\ mon' = [mon EXCEPT ![c].pc = "done", ![c].subscribed = FALSE,
                          ![c].checkAttempts = 0, ![c].cause = "none"]
    /\ coin' = [coin EXCEPT ![c].exitedCreatorListener = TRUE]
    /\ UNCHANGED <<pendingCoins, buy, race, vet, funder, late, quote, curve, mint, jito, reg, route, find, logs>>

----------------------------------------------------------------------------
(* HandleSellCoins / fetchCoinsToSell *)


\* coinsToDelete without the botHoldsTokens test
coinsToDeleteOnExit ==
    {c \in pendingCoins :
        \/ coin[c].exitedBuyCoin
        \/ coin[c].exitedSellCoin /\ coin[c].exitedCreatorListener}

\* fetchCoinsToSell: the keys deleted by one scan
coinsToDelete ==
    {c \in pendingCoins :
        \/ coin[c].exitedBuyCoin /\ ~botHoldsTokens(coin[c])
        \/ coin[c].exitedSellCoin /\ coin[c].exitedCreatorListener}

\* coinsToSell taking every recorded quantity as held
coinsToSellAnyQuantity ==
    {c \in pendingCoins :
        coin[c].tokensHeld # NilTokens /\ coin[c].creatorSold /\ ~coin[c].isSellingCoin}

\* fetchCoinsToSell: the coins returned by one scan (the test is made on the
\* record the loop holds, also when the key was deleted just before)
coinsToSell ==
    {c \in pendingCoins :
        botHoldsTokens(coin[c]) /\ coin[c].creatorSold /\ ~coin[c].isSellingCoin}

idleRaces == {r \in Races : race[r].pc = "idle"}

\* the goroutine created by `go b.SellCoinFast(coin)`, before its first step
SpawnedRace(c) == [RaceIdle EXCEPT !.pc = "start", !.coin = c]

\* One iteration of HandleSellCoins: fetchCoinsToSell under the lock, then
\* one SellCoinFast goroutine per returned coin (in the lowest free slots).
HandleSellCoins ==
    /\ Cardinality(coinsToSell) <= Cardinality(idleRaces)
    /\ pendingCoins' = pendingCoins \ coinsToDelete
    /\ \E slot \in [coinsToSell -> idleRaces] :
          /\ \A c1, c2 \in coinsToSell : slot[c1] = slot[c2] => c1 = c2
          /\ \A r \in idleRaces :
                (\E c \in coinsToSell : slot[c] > r) => (\E c \in coinsToSell : slot[c] = r)
          /\ race' = [r \in Races |->
                        IF \E c \in coinsToSell : slot[c] = r
                        THEN SpawnedRace(CHOOSE c \in coinsToSell : slot[c] = r)
                        ELSE race[r]]
    /\ UNCHANGED <<coin, buy, mon, vet, funder, late, quote, curve, mint, jito, reg, route, find, logs>>

----------------------------------------------------------------------------
(* SellCoinFast / sellCoinWrapper *)

\* the context and the ticker goroutine of a race are live
tickerRunning(r) == race[r].pc \in {"wait", "sleep"} /\ ~race[r].ctxDone

\* SellCoinFast up to `<-result`: coin.isSellingCoin = true, the 6 second
\* context, the 400ms ticker and the goroutine that serves it
SellCoinFastStart(r) ==
    /\ race[r].pc = "start"
    /\ coin' = [coin EXCEPT ![race[r].coin].isSellingCoin = TRUE]
    /\ race' = [race EXCEPT ![r].pc = "wait"]
    /\ UNCHANGED <<pendingCoins, buy, mon, vet, funder, late, quote, curve, mint, jito, reg, route, find, logs>>

\* tickerTick passing sendVanilla on without flipping it
tickerTickNoFlip(r) ==
    /\ tickerRunning(r)
    /\ race[r].inflight < MaxInflight
    /\ race[r].ticks < MaxTicks
    /\ race' = [race EXCEPT ![r].inflight = @ + 1,
                            ![r].ticks = @ + 1,
                            ![r].forced = IF race[r].sendVanilla THEN @ + 1 ELSE @]
    /\ UNCHANGED <<pendingCoins, coin, buy, mon, vet, funder, late, quote, curve, mint, jito, reg, route, find, logs>>

\* the ticker goroutine takes `<-ticker.C`: sendVanilla = !sendVanilla, then
\* `go b.sellCoinWrapper(coin, result, sendVanilla)`
tickerTick(r) ==
    /\ tickerRunning(r)
    /\ race[r].inflight < MaxInflight
    /\ race[r].ticks < MaxTicks
    /\ race' = [race EXCEPT ![r].inflight = @ + 1,
                            ![r].sendVanilla = ~@,
                            ![r].ticks = @ + 1,
                            ![r].forced = IF ~race[r].sendVanilla THEN @ + 1 ELSE @]
    /\ UNCHANGED <<pendingCoins, coin, buy, mon, vet, funder, late, quote, curve, mint, jito, reg, route, find, logs>>

\* the 6 second deadline of the context passes: the ticker goroutine takes
\* `<-ctx.Done()` and returns
ctxDeadline(r) ==
    /\ tickerRunning(r)
    /\ race' = [race EXCEPT ![r].ctxDone = TRUE]
    /\ UNCHANGED <<pendingCoins, coin, buy, mon, vet, funder, late, quote, curve, mint, jito, reg, route, find, logs>>

\* sellCoinWrapper: sellCoin returned an error (or a nil signature): return
\* without sending on result
sellCoinWrapperFailed(r) ==
    /\ race[r].inflight > 0
    /\ race' = [race EXCEPT ![r].inflight = @ - 1]
    /\ UNCHANGED <<pendingCoins, coin, buy, mon, vet, funder, late, quote, curve, mint, jito, reg, route, find, logs>>

\* sellCoinWrapper: the sell transaction was confirmed: `result <- 1` on the
\* channel of capacity 1.  While the buffer is full the send blocks and the
\* goroutine stays in flight.
sellCoinWrapperConfirmed(r) ==
    /\ race[r].inflight > 0
    /\ race[r].result = 0
    /\ race' = [race EXCEPT ![r].inflight = @ - 1, ![r].result = 1]
    /\ UNCHANGED <<pendingCoins, coin, buy, mon, vet, funder, late, quote, curve, mint, jito, reg, route, find, logs>>

\* SellCoinFast: `<-result` takes the buffered value, then
\* time.Sleep(1 * time.Second)
SellCoinFastRecv(r) ==
    /\ race[r].pc = "wait"
    /\ race[r].result = 1
    /\ race' = [race EXCEPT ![r].pc = "sleep", ![r].result = 0]
    /\ UNCHANGED <<pendingCoins, coin, buy, mon, vet, funder, late, quote, curve, mint, jito, reg, route, find, logs>>


\* SellCoinFastReturn that also clears isSellingCoin
SellCoinFastReturnClearsSelling(r) ==
    /\ race[r].pc = "sleep"
    /\ race' = [race EXCEPT ![r].pc = "done", ![r].ctxDone = TRUE,
                            ![r].sendVanilla = TRUE, ![r].ticks = 0, ![r].forced = 0]
    /\ coin' = [coin EXCEPT ![race[r].coin].exitedSellCoin = TRUE,
                            ![race[r].coin].isSellingCoin = FALSE]
    /\ UNCHANGED <<pendingCoins, buy, mon, vet, funder, late, quote, curve, mint, jito, reg, route, find, logs>>

\* SellCoinFastReturn that also records that nothing is held any more
SellCoinFastReturnZeroesHeld(r) ==
    /\ race[r].pc = "sleep"
    /\ race' = [race EXCEPT ![r].pc = "done", ![r].ctxDone = TRUE,
                            ![r].sendVanilla = TRUE, ![r].ticks = 0, ![r].forced = 0]
    /\ coin' = [coin EXCEPT ![race[r].coin].exitedSellCoin = TRUE,
                            ![race[r].coin].tokensHeld = 0]
    /\ UNCHANGED <<pendingCoins, buy, mon, vet, funder, late, quote, curve, mint, jito, reg, route, find, logs>>

\* SellCoinFast returns: the deferred ticker.Stop(), cancel() and
\* Coin.setExitedSellCoinTrue; the ticker goroutine and its locals are gone
SellCoinFastReturn(r) ==
    /\ race[r].pc = "sleep"
    /\ race' = [race EXCEPT ![r].pc = "done", ![r].ctxDone = TRUE,
                            ![r].sendVanilla = TRUE, ![r].ticks = 0, ![r].forced = 0]
    /\ coin' = [coin EXCEPT ![race[r].coin].exitedSellCoin = TRUE]
    /\ UNCHANGED <<pendingCoins, buy, mon, vet, funder, late, quote, curve, mint, jito, reg, route, find, logs>>

----------------------------------------------------------------------------
(* The lifecycle specification *)

\* shouldBuyCoin is not running
VetIdle ==
    /\ vet = [pc |-> "idle", creatorPurchaseSol |-> 0, creatorCreatedCoin |-> FALSE,
              creatorFunders |-> <<>>, fetchAttempts |-> 0, fetchErr |-> FALSE,
              received |-> 0, safeFundersCount |-> 0, decision |-> "none"]
    /\ funder = <<>>

\* lateToBuy is not being evaluated on its own
LateIdle == late = [applied |-> FALSE, creatorPurchaseSol |-> 0, vSol |-> 0, result |-> FALSE]

QuoteIdle == quote = [pc |-> "idle", solAmount |-> 0, vSol |-> 0, vTok |-> 0, pct |-> 0, result |-> 0]

\* BondingCurveData before anything is decoded
NoCurveData == [realTok |-> 0, vTok |-> 0, vSol |-> 0]

CurveIdle == curve = [pc |-> "idle", account |-> FALSE, data |-> <<>>, bcd |-> NoCurveData]

MintIdle == mint = [pc |-> "idle", fetched |-> FALSE, elapsed |-> 0, checked |-> 0, signalled |-> FALSE]

\* The JitoManager: inputs and state

Slots == 0..1
Epochs == 0..1
NodeIds == {"nodeA"}
VoteIds == {"voteA"}

\* the zero value a Go map lookup yields for a missing string key, which is
\* also what the JSON decoder leaves in jitoValidator.VoteAccount when the
\* field is absent
EmptyString == ""

\* tipInfo == nil
NilTip == -1

\* generateTipAmount has not returned yet
NoTip == -2

DefaultTip == 2000000

\* LandedTips75ThPercentile values the stream delivers, counted in halves of
\* a lamport (0.5e-9 SOL), so that value * 1e9 has a fractional part
TipSamples == {3, 5000}

\* uint64(LandedTips75ThPercentile * 1e9): the fraction is dropped
TipLamports(sample) == sample \div 2

\* GetLeaderSchedule results: a validator for some of the slots
LeaderSchedules == UNION {[S -> NodeIds] : S \in SUBSET Slots}

\* GetVoteAccounts results (Current): node identity -> vote identity
VoteAccountResults == UNION {[S -> VoteIds] : S \in SUBSET NodeIds}

\* validators of the kobe API response
ValidatorEntries == [VoteAccount : VoteIds \cup {EmptyString}, RunningJito : BOOLEAN]

\* v, ok := m[k] with the zero value for a missing key
MapGet(m, k, zero) == IF k \in DOMAIN m THEN m[k] ELSE zero

\* m[k] = v for every (k, v) of upd, on top of what m holds
MapPutAll(m, upd) ==
    [k \in DOMAIN m \cup DOMAIN upd |-> IF k \in DOMAIN upd THEN upd[k] ELSE m[k]]

EmptyMap == [k \in {} |-> EmptyString]

\* newJitoManager: empty maps, zero slotIndex and epoch, nil tipInfo, a free
\* lock.  epochPc/schedEpoch: position and local of the fetchEpochInfo loop;
\* stream: position of manageTipStream; leaderRet/tipRet: what the last
\* isJitoLeader / generateTipAmount call returned; ingested: the last sample
\* the stream delivered; chainEpoch: the epoch the cluster is in;
\* leaderEpoch: the epoch the stored leader schedule was fetched in
JitoNew ==
    [slotIndex |-> 0, epoch |-> 0,
     jitoValidators |-> {}, slotLeader |-> EmptyMap, voteAccounts |-> EmptyMap,
     lock |-> "free", tipInfo |-> NilTip,
     epochPc |-> "idle", schedEpoch |-> 0, stream |-> "dial",
     leaderRet |-> "none", tipRet |-> NoTip, ingested |-> NilTip,
     chainEpoch |-> 0, leaderEpoch |-> 0]

JitoIdle == jito = JitoNew

\* The registry under its lock: inputs and state

RegMints == {"mintA", "mintB"}

\* tokensToBuy of a purchase: at most 100 units, or more
RegQuantities == {50, 200}

\* pendingCoinsLock: the function that holds it, and for which asset
Free == <<"free", "none">>

\* NewBot and two coins on their way to purchaseCoin.  buy/mon/sell: the
\* position of purchaseCoin/BuyCoin, listenCreatorSell and SellCoinFast for
\* each asset; scan: the position of HandleSellCoins
RegNew ==
    [lock |-> Free, pendingCoins |-> {},
     coin |-> [m \in RegMints |-> NewCoin(20)],
     buy |-> [m \in RegMints |-> "queued"],
     mon |-> [m \in RegMints |-> "idle"],
     sell |-> [m \in RegMints |-> "idle"],
     scan |-> "sleep"]

RegIdle == reg = RegNew

\* One dispatch attempt: inputs and state

\* no attempt is being followed.  kind: "buy" (BuyCoin) or "sell" (sellCoin);
\* j: the maps and slot index of the JitoManager when the attempt runs;
\* via: the path signAndSendTx used
NoRoute ==
    [pc |-> "idle", kind |-> "none", shouldCreateATA |-> FALSE, sendVanilla |-> FALSE,
     j |-> JitoNew, enableJito |-> FALSE, instructions |-> <<>>, via |-> "none"]

RouteIdle == route = NoRoute

\* findFundersFromResps before it is called
NoFind ==
    [pc |-> "idle", responses |-> <<>>, creatorAddress |-> "", idx |-> 0, funders |-> <<>>]

\* the funder scan is not part of the run
FindIdle == find = NoFind

\* HandleNewMints before sub.Recv() returns a message.  entries: for each log
\* entry of the message, whether isMintLog holds; idx: the entries the loop
\* has passed; checks: the checkAndSignalBuyCoin goroutines of the message;
\* purchases: the purchaseCoin goroutines of its candidates
NoLogs == [pc |-> "recv", entries |-> <<>>, idx |-> 0, checks |-> <<>>, purchases |-> <<>>]

\* no log message is part of the run
LogsIdle == logs = NoLogs

Init == LifeInit /\ VetIdle /\ LateIdle /\ QuoteIdle /\ CurveIdle /\ MintIdle /\ JitoIdle /\ RegIdle /\ RouteIdle /\ FindIdle /\ LogsIdle

Next ==
    \/ \E c \in Coins : purchaseCoin(c)
    \/ \E c \in Coins : BuyCoinFetch(c)
    \/ \E c \in Coins : BuyCoinGuard(c)
    \/ \E c \in Coins : BuyCoinSend(c)
    \/ \E c \in Coins : BuyCoinSetBotPurchased(c)
    \/ \E c \in Coins : BuyCoinSetTokensHeld(c)
    \/ \E c \in Coins : BuyCoinSetATA(c)
    \/ \E c \in Coins : BuyCoinSetSignature(c)
    \/ \E c \in Coins : BuyCoinReturnNil(c)
    \/ \E c \in Coins : listenCreatorSellSubscribe(c)
    \/ \E c \in Coins : listenCreatorSellRecvError(c)
    \/ \E c \in Coins : listenCreatorSellRecv(c)
    \/ \E c \in Coins : listenCreatorSellCheck(c)
    \/ \E c \in Coins : setExitedCreatorListenerTrue(c)
    \/ HandleSellCoins
    \/ \E r \in Races : SellCoinFastStart(r)
    \/ \E r \in Races : tickerTick(r)
    \/ \E r \in Races : ctxDeadline(r)
    \/ \E r \in Races : sellCoinWrapperFailed(r)
    \/ \E r \in Races : sellCoinWrapperConfirmed(r)
    \/ \E r \in Races : SellCoinFastRecv(r)
    \/ \E r \in Races : SellCoinFastReturn(r)

Spec == Init /\ [][Next]_vars

----------------------------------------------------------------------------
(* Creator vetting: shouldBuyCoin / isSafeFunder *)

\* shouldBuyCoin: creatorPurchaseSol < 0.5 || creatorPurchaseSol > 2.5
MinCreatorPurchase == 10

MaxCreatorPurchase == 50

\* shouldBuyCoin: findFundersFromResps(funderTrans, creatorPubKey, 3)
FundersLimit == 3

\* what isSafeFunder can find out about a funder address: it is in
\* exchangeAddresses, or addressCreatedCoin holds for it, or neither
FunderKinds == {"exchange", "createdCoin", "unknown"}

\* the lists findFundersFromResps can return
FunderLists == UNION {[1..n -> FunderKinds] : n \in 0..FundersLimit}

\* creator purchase sizes of the candidates: 0.4, 0.5, 1.0, 2.5, 2.6 SOL
VetPurchases == {8, 10, 20, 50, 52}

\* shouldBuyCoin is called with a candidate: its creator purchase size,
\* whether addressCreatedCoin holds for its creator, and the funders
\* findFundersFromResps finds if the retrieval succeeds
VetCall(p, cc, fs) ==
    [pc |-> "start", creatorPurchaseSol |-> p, creatorCreatedCoin |-> cc,
     creatorFunders |-> fs, fetchAttempts |-> 0, fetchErr |-> FALSE,
     received |-> 0, safeFundersCount |-> 0, decision |-> "none"]

VetInit ==
    /\ vet \in {VetCall(p, cc, fs) : p \in VetPurchases, cc \in BOOLEAN, fs \in FunderLists}
    /\ funder = <<>>

\* the price constraint with the bounds themselves excluded
priceOutOfBandOpen(p) == p <= MinCreatorPurchase \/ p >= MaxCreatorPurchase

\* shouldBuyCoin: coin.creatorPurchaseSol < 0.5 || coin.creatorPurchaseSol > 2.5
priceOutOfBand(p) == p < MinCreatorPurchase \/ p > MaxCreatorPurchase

\* shouldBuyCoin returns
shouldBuyCoinReturn(b) == vet' = [vet EXCEPT !.pc = "done", !.decision = IF b THEN "buy" ELSE "skip"]

\* a failed fetchNLastTrans that is noted and does not end shouldBuyCoin:
\* the function goes on from where it was
afterFetchErrorIgnored(v) ==
    [v EXCEPT !.fetchErr = TRUE]

\* shouldBuyCoin after a failed fetchNLastTrans(30, creatorPubKey): the
\* error is reported and the function returns false
afterFetchError(v) ==
    [v EXCEPT !.pc = "done", !.decision = "skip", !.fetchAttempts = @ + 1, !.fetchErr = TRUE]

\* shouldBuyCoin up to the loop that spawns the isSafeFunder goroutines: the
\* price band, addressCreatedCoin(creator), fetchNLastTrans (which may
\* fail), findFundersFromResps
shouldBuyCoinStart ==
    /\ vet.pc = "start"
    /\ IF priceOutOfBand(vet.creatorPurchaseSol)
       THEN shouldBuyCoinReturn(FALSE) /\ UNCHANGED funder
       ELSE IF vet.creatorCreatedCoin
       THEN shouldBuyCoinReturn(FALSE) /\ UNCHANGED funder
       ELSE \/ vet' = afterFetchError(vet) /\ UNCHANGED funder
            \/ IF Len(vet.creatorFunders) = 0
               THEN /\ vet' = [vet EXCEPT !.pc = "done", !.decision = "skip",
                                          !.fetchAttempts = @ + 1]
                    /\ UNCHANGED funder
               ELSE /\ vet' = [vet EXCEPT !.pc = "collect", !.fetchAttempts = @ + 1]
                    /\ funder' = [i \in 1..Len(vet.creatorFunders) |->
                                    [pc |-> "spawned", sent |-> 0]]
    /\ UNCHANGED <<pendingCoins, coin, buy, mon, race, late, quote, curve, mint, jito, reg, route, find, logs>>

\* isSafeFunder sending false for an exchange address
isSafeFunderRejectsExchange(i) ==
    /\ vet.pc = "collect"
    /\ i \in DOMAIN funder
    /\ funder[i].pc = "spawned"
    /\ funder' = [funder EXCEPT ![i].pc =
                    CASE vet.creatorFunders[i] = "exchange" -> "sendFalse"
                      [] vet.creatorFunders[i] = "createdCoin" -> "sendFalse"
                      [] OTHER -> "done"]
    /\ UNCHANGED <<pendingCoins, coin, buy, mon, race, vet, late, quote, curve, mint, jito, reg, route, find, logs>>

\* isSafeFunder up to its channel send: true for an exchange address, false
\* for an address that created a coin; for any other address the function
\* reaches its end without a send
isSafeFunder(i) ==
    /\ vet.pc = "collect"
    /\ i \in DOMAIN funder
    /\ funder[i].pc = "spawned"
    /\ funder' = [funder EXCEPT ![i].pc =
                    CASE vet.creatorFunders[i] = "exchange" -> "sendTrue"
                      [] vet.creatorFunders[i] = "createdCoin" -> "sendFalse"
                      [] OTHER -> "done"]
    /\ UNCHANGED <<pendingCoins, coin, buy, mon, race, vet, late, quote, curve, mint, jito, reg, route, find, logs>>

\* `safe := <-funderStatusChan` meets the send of goroutine i on the
\* unbuffered channel; isSafeFunder returns
funderStatusChanRecv(i) ==
    /\ vet.pc = "collect"
    /\ vet.received < Len(vet.creatorFunders)
    /\ i \in DOMAIN funder
    /\ funder[i].pc \in {"sendTrue", "sendFalse"}
    /\ vet' = [vet EXCEPT !.received = @ + 1,
                          !.safeFundersCount = IF funder[i].pc = "sendTrue" THEN @ + 1 ELSE @]
    /\ funder' = [funder EXCEPT ![i].pc = "done", ![i].sent = 1]
    /\ UNCHANGED <<pendingCoins, coin, buy, mon, race, late, quote, curve, mint, jito, reg, route, find, logs>>

\* shouldBuyCoin returning true as soon as one funder was safe
shouldBuyCoinDecideAnySafe ==
    /\ vet.pc = "collect"
    /\ vet.received = Len(vet.creatorFunders)
    /\ shouldBuyCoinReturn(vet.safeFundersCount > 0)
    /\ UNCHANGED <<pendingCoins, coin, buy, mon, race, funder, late, quote, curve, mint, jito, reg, route, find, logs>>

\* the receive loop has run len(creatorFunders) times:
\* return safeFundersCount == len(creatorFunders)
shouldBuyCoinDecide ==
    /\ vet.pc = "collect"
    /\ vet.received = Len(vet.creatorFunders)
    /\ shouldBuyCoinReturn(vet.safeFundersCount = Len(vet.creatorFunders))
    /\ UNCHANGED <<pendingCoins, coin, buy, mon, race, funder, late, quote, curve, mint, jito, reg, route, find, logs>>

\* no asset is under management while a candidate is vetted
LifeIdle ==
    /\ pendingCoins = {}
    /\ coin = [c \in Coins |-> NewCoin(0)]
    /\ buy = [c \in Coins |-> [BuyIdle EXCEPT !.pc = "none"]]
    /\ mon = [c \in Coins |-> MonIdle]
    /\ race = [r \in Races |-> RaceIdle]

InitVet == LifeIdle /\ VetInit /\ LateIdle /\ QuoteIdle /\ CurveIdle /\ MintIdle /\ JitoIdle /\ RegIdle /\ RouteIdle /\ FindIdle /\ LogsIdle

NextVet ==
    \/ shouldBuyCoinStart
    \/ \E i \in 1..FundersLimit : isSafeFunder(i)
    \/ \E i \in 1..FundersLimit : funderStatusChanRecv(i)
    \/ shouldBuyCoinDecide

SpecVet == InitVet /\ [][NextVet]_vars

----------------------------------------------------------------------------
(* The late-entry guard on its own *)

\* creator purchase sizes 0.5 .. 2.5 SOL
LatePurchases == {10, 20, 30, 40, 50}

\* virtual sol reserves 30.25 .. 33.0 SOL
LateReserves == 605..660

LateInit ==
    late \in {[applied |-> FALSE, creatorPurchaseSol |-> p, vSol |-> r, result |-> FALSE] :
                p \in LatePurchases, r \in LateReserves}

\* c.lateToBuy(bcd) is evaluated
lateToBuyApply ==
    /\ ~late.applied
    /\ late' = [late EXCEPT !.applied = TRUE,
                            !.result = lateToBuy(late.creatorPurchaseSol,
                                                 [vSol |-> late.vSol, vTok |-> 0])]
    /\ UNCHANGED <<pendingCoins, coin, buy, mon, race, vet, funder, quote, curve, mint, jito, reg, route, find, logs>>

InitLate == LifeIdle /\ VetIdle /\ LateInit /\ QuoteIdle /\ CurveIdle /\ MintIdle /\ JitoIdle /\ RegIdle /\ RouteIdle /\ FindIdle /\ LogsIdle

NextLate == lateToBuyApply

SpecLate == InitLate /\ [][NextLate]_vars

----------------------------------------------------------------------------
(* calculateBuyQuote on its own *)

\* purchase amounts of the unsigned word type: small ones, the ones around
\* the sign bit, and the ones near the top of the range
QuoteAmounts ==
    {0, 1, 2, 5, 2^(WordBits - 1) - 1, 2^(WordBits - 1), 2^(WordBits - 1) + 1,
     2^WordBits - 7, 2^WordBits - 5, 2^WordBits - 3, 2^WordBits - 1}

\* snapshots with positive reserves
QuoteSols == {1, 3, 5, 7}

QuoteToks == {1, 10, 100, 250}

\* multipliers 0, 0.5, 0.98, 1.0 in hundredths
QuotePcts == {0, 50, 98, 100}

QuoteInit ==
    quote \in {[pc |-> "call", solAmount |-> a, vSol |-> s, vTok |-> t, pct |-> m, result |-> 0] :
                 a \in QuoteAmounts, s \in QuoteSols, t \in QuoteToks, m \in QuotePcts}

quoteSnapshot == [vSol |-> quote.vSol, vTok |-> quote.vTok]

\* calculateBuyQuote(solAmount, bondingCurve, percentage) returns
calculateBuyQuoteReturn ==
    /\ quote.pc = "call"
    /\ ~quotePanics(quote.solAmount, quoteSnapshot)
    /\ quote' = [quote EXCEPT !.pc = "returned",
                              !.result = calculateBuyQuote(quote.solAmount, quoteSnapshot, quote.pct)]
    /\ UNCHANGED <<pendingCoins, coin, buy, mon, race, vet, funder, late, curve, mint, jito, reg, route, find, logs>>

\* new(big.Int).Div(invariant, newVirtualSolReserves) with a zero divisor
calculateBuyQuotePanic ==
    /\ quote.pc = "call"
    /\ quotePanics(quote.solAmount, quoteSnapshot)
    /\ quote' = [quote EXCEPT !.pc = "panicked"]
    /\ UNCHANGED <<pendingCoins, coin, buy, mon, race, vet, funder, late, curve, mint, jito, reg, route, find, logs>>

InitQuote == LifeIdle /\ VetIdle /\ LateIdle /\ QuoteInit /\ CurveIdle /\ MintIdle /\ JitoIdle /\ RegIdle /\ RouteIdle /\ FindIdle /\ LogsIdle

NextQuote == calculateBuyQuoteReturn \/ calculateBuyQuotePanic

SpecQuote == InitQuote /\ [][NextQuote]_vars

----------------------------------------------------------------------------
(* fetchBondingCurve: the decoding of the account blob, and BuyCoin on it *)

\* fetchBondingCurve: len(data) < 24
CurveDataLen == 24

\* binary.LittleEndian.Uint64 of a run of bytes
RECURSIVE LittleEndianUint64(_)
LittleEndianUint64(bytes) ==
    IF bytes = <<>> THEN 0 ELSE Head(bytes) + 256 * LittleEndianUint64(Tail(bytes))

\* fetchBondingCurve with the virtual reserves read at each other's offset
fetchBondingCurveSwapped(account, data) ==
    IF ~account \/ Len(data) < CurveDataLen
    THEN [err |-> TRUE, bcd |-> NoCurveData]
    ELSE [err |-> FALSE,
          bcd |-> [realTok |-> LittleEndianUint64(SubSeq(data, 1, 8)),
                   vTok |-> LittleEndianUint64(SubSeq(data, 17, 24)),
                   vSol |-> LittleEndianUint64(SubSeq(data, 9, 16))]]

\* fetchBondingCurve: an RPC error or a missing account (Value == nil) is an
\* error, a blob shorter than 24 bytes is an error, otherwise the three
\* reserves are data[0:8], data[8:16], data[16:24] read little-endian
fetchBondingCurve(account, data) ==
    IF ~account \/ Len(data) < CurveDataLen
    THEN [err |-> TRUE, bcd |-> NoCurveData]
    ELSE [err |-> FALSE,
          bcd |-> [realTok |-> LittleEndianUint64(SubSeq(data, 1, 8)),
                   vTok |-> LittleEndianUint64(SubSeq(data, 9, 16)),
                   vSol |-> LittleEndianUint64(SubSeq(data, 17, 24))]]

\* account blobs: 8 bytes of real-token reserves, 8 of virtual-token
\* reserves (60000, 70000 and neighbours), 8 of virtual-sol reserves (620,
\* 622, 623 and the same low bytes alone), and one byte more
CurveBlobs ==
    {<<r0, 1, 0, 0, 0, 0, 0, 0>> \o <<t0, t1, t2, 0, 0, 0, 0, 0>> \o
     <<s0, s1, 0, 0, 0, 0, 0, 0>> \o <<9>> :
        r0 \in {0, 5}, t0 \in {96, 112}, t1 \in {17, 234}, t2 \in {0, 1},
        s0 \in {108, 110, 111}, s1 \in {0, 2}}

\* the lengths the account data can have
CurveLens == {0, 1, 8, 16, 23, 24, 25}

CurveInit ==
    curve \in {[pc |-> "fetch", account |-> a, data |-> SubSeq(blob, 1, n), bcd |-> NoCurveData] :
                 a \in BOOLEAN, blob \in CurveBlobs, n \in CurveLens}

\* BuyCoin from its entry to the fetched bonding curve, fetchBondingCurve
\* decoding the account blob
BuyCoinFetchDecoded(c) ==
    /\ buy[c].pc = "start"
    /\ curve.pc = "fetch"
    /\ LET res == fetchBondingCurve(curve.account, curve.data)
       IN  \/ BuyCoinReturn(c, "errATAAddress", coin) /\ UNCHANGED curve
           \/ /\ res.err
              /\ BuyCoinReturn(c, "errFetchBondingCurve", coin)
              /\ curve' = [curve EXCEPT !.pc = "error"]
           \/ /\ ~res.err
              /\ \E create \in BOOLEAN :
                    buy' = [buy EXCEPT ![c].pc = "guard",
                                       ![c].bcd = [vSol |-> res.bcd.vSol, vTok |-> res.bcd.vTok],
                                       ![c].shouldCreateATA = create]
              /\ curve' = [curve EXCEPT !.pc = "decoded", !.bcd = res.bcd]
              /\ UNCHANGED coin
    /\ UNCHANGED <<pendingCoins, mon, race, vet, funder, late, quote, mint, jito, reg, route, find, logs>>

InitCurve == LifeInit /\ VetIdle /\ LateIdle /\ QuoteIdle /\ CurveInit /\ MintIdle /\ JitoIdle /\ RegIdle /\ RouteIdle /\ FindIdle /\ LogsIdle

NextCurve ==
    \/ \E c \in Coins : purchaseCoin(c)
    \/ \E c \in Coins : BuyCoinFetchDecoded(c)
    \/ \E c \in Coins : BuyCoinGuard(c)
    \/ \E c \in Coins : BuyCoinSend(c)
    \/ \E c \in Coins : BuyCoinSetBotPurchased(c)
    \/ \E c \in Coins : BuyCoinSetTokensHeld(c)
    \/ \E c \in Coins : BuyCoinSetATA(c)
    \/ \E c \in Coins : BuyCoinSetSignature(c)
    \/ \E c \in Coins : BuyCoinReturnNil(c)

SpecCurve == InitCurve /\ [][NextCurve]_vars

----------------------------------------------------------------------------
(* HandleNewMints / checkAndSignalBuyCoin: from a detected mint to BuyCoin *)

\* checkAndSignalBuyCoin: time.Since(start) > 2*time.Second, in seconds
FreshnessLimit == 2

\* creator purchase sizes of the detected mints: 0.4 and 1.0 SOL
MintPurchases == {8, 20}

\* the funders of their creators: at most two
MintFunderLists == {fs \in FunderLists : Len(fs) <= 2}

\* HandleNewMints has seen a mint log and spawned checkAndSignalBuyCoin, which
\* has taken start := time.Now()
MintInit ==
    mint = [pc |-> "detected", fetched |-> FALSE, elapsed |-> 0, checked |-> 0,
            signalled |-> FALSE]

\* a second passes while checkAndSignalBuyCoin is running or is blocked in
\* its send on coinsToBuy
timePasses ==
    /\ mint.pc \in {"detected", "vetting", "send"}
    /\ mint.elapsed < MaxElapsed
    /\ mint' = [mint EXCEPT !.elapsed = @ + 1]
    /\ UNCHANGED <<pendingCoins, coin, buy, mon, race, vet, funder, late, quote, curve, jito, reg, route, find, logs>>

\* checkAndSignalBuyCoin: fetchMintDetails fails and the function returns, or
\* it yields the new coin and shouldBuyCoin(newCoin) is called
checkAndSignalBuyCoinFetch ==
    /\ mint.pc = "detected"
    /\ \/ /\ mint' = [mint EXCEPT !.pc = "done"]
          /\ UNCHANGED vet
       \/ /\ mint' = [mint EXCEPT !.pc = "vetting", !.fetched = TRUE]
          /\ \E p \in MintPurchases, cc \in BOOLEAN, fs \in MintFunderLists :
                vet' = VetCall(p, cc, fs)
    /\ UNCHANGED <<pendingCoins, coin, buy, mon, race, funder, late, quote, curve, jito, reg, route, find, logs>>

\* checkAndSignalBuyCoin after shouldBuyCoin, without the freshness guard
checkAndSignalBuyCoinDecideNoGuard ==
    /\ mint.pc = "vetting"
    /\ vet.pc = "done"
    /\ IF vet.decision # "buy"
       THEN mint' = [mint EXCEPT !.pc = "done"]
       ELSE mint' = [mint EXCEPT !.pc = "send", !.checked = mint.elapsed]
    /\ UNCHANGED <<pendingCoins, coin, buy, mon, race, vet, funder, late, quote, curve, jito, reg, route, find, logs>>

\* checkAndSignalBuyCoin after shouldBuyCoin has returned: return if it said
\* false; return if time.Since(start) > 2s; otherwise go on to the send
checkAndSignalBuyCoinDecide ==
    /\ mint.pc = "vetting"
    /\ vet.pc = "done"
    /\ IF vet.decision # "buy"
       THEN mint' = [mint EXCEPT !.pc = "done"]
       ELSE IF mint.elapsed > FreshnessLimit
       THEN mint' = [mint EXCEPT !.pc = "done", !.checked = mint.elapsed]
       ELSE mint' = [mint EXCEPT !.pc = "send", !.checked = mint.elapsed]
    /\ UNCHANGED <<pendingCoins, coin, buy, mon, race, vet, funder, late, quote, curve, jito, reg, route, find, logs>>

\* `b.coinsToBuy <- newCoin` meets the receive of HandleBuyCoins on the
\* unbuffered channel; HandleBuyCoins spawns purchaseCoin(coin)
coinsToBuyRecv(c) ==
    /\ mint.pc = "send"
    /\ buy[c].pc = "none"
    /\ mint' = [mint EXCEPT !.pc = "done", !.signalled = TRUE]
    /\ coin' = [coin EXCEPT ![c] = NewCoin(vet.creatorPurchaseSol)]
    /\ buy' = [buy EXCEPT ![c] = BuyIdle]
    /\ UNCHANGED <<pendingCoins, mon, race, vet, funder, late, quote, curve, jito, reg, route, find, logs>>

InitMint == LifeIdle /\ VetIdle /\ LateIdle /\ QuoteIdle /\ CurveIdle /\ MintInit /\ JitoIdle /\ RegIdle /\ RouteIdle /\ FindIdle /\ LogsIdle

NextMint ==
    \/ timePasses
    \/ checkAndSignalBuyCoinFetch
    \/ shouldBuyCoinStart
    \/ \E i \in 1..FundersLimit : isSafeFunder(i)
    \/ \E i \in 1..FundersLimit : funderStatusChanRecv(i)
    \/ shouldBuyCoinDecide
    \/ checkAndSignalBuyCoinDecide
    \/ \E c \in Coins : coinsToBuyRecv(c)
    \/ \E c \in Coins : purchaseCoin(c)
    \/ \E c \in Coins : BuyCoinFetch(c)
    \/ \E c \in Coins : BuyCoinGuard(c)
    \/ \E c \in Coins : BuyCoinSend(c)
    \/ \E c \in Coins : BuyCoinSetBotPurchased(c)
    \/ \E c \in Coins : BuyCoinSetTokensHeld(c)
    \/ \E c \in Coins : BuyCoinSetATA(c)
    \/ \E c \in Coins : BuyCoinSetSignature(c)
    \/ \E c \in Coins : BuyCoinReturnNil(c)

SpecMint == InitMint /\ [][NextMint]_vars

----------------------------------------------------------------------------
(* The JitoManager: leader lookup, refreshes and the tip stream *)

JitoInit == jito = JitoNew

\* the function named f is between j.lock.Lock() and j.lock.Unlock()
holdsLock(f) == jito.lock = f

\* j.lock.Lock() at the head of isJitoLeader, buildLeaderSchedule (called by
\* the periodic fetchLeaderSchedule loop), buildVoteAccounts and
\* buildJitoValidators
jitoLock(f) ==
    /\ jito.lock = "free"
    /\ f = "buildLeaderSchedule" => jito.epochPc # "schedule"
    /\ jito' = [jito EXCEPT !.lock = f]
    /\ UNCHANGED <<pendingCoins, coin, buy, mon, race, vet, funder, late, quote, curve, mint, reg, route, find, logs>>

\* validator, ok := j.slotLeader[j.slotIndex]; if !ok return false;
\* return j.jitoValidators[j.voteAccounts[validator]]
isJitoLeader(j) ==
    IF j.slotIndex \notin DOMAIN j.slotLeader
    THEN FALSE
    ELSE MapGet(j.voteAccounts, j.slotLeader[j.slotIndex], EmptyString) \in j.jitoValidators

\* isJitoLeader, from after Lock() to the deferred Unlock()
isJitoLeaderReturn ==
    /\ holdsLock("isJitoLeader")
    /\ jito' = [jito EXCEPT !.leaderRet = IF isJitoLeader(jito) THEN "true" ELSE "false",
                            !.lock = "free"]
    /\ UNCHANGED <<pendingCoins, coin, buy, mon, race, vet, funder, late, quote, curve, mint, reg, route, find, logs>>

\* buildLeaderSchedule, from after Lock() to the deferred Unlock(): the map
\* is replaced.  When the caller is fetchEpochInfo it goes on to set epoch.
buildLeaderSchedule ==
    /\ holdsLock("buildLeaderSchedule")
    /\ \E sched \in LeaderSchedules :
           jito' = [jito EXCEPT !.slotLeader = sched,
                                !.leaderEpoch = jito.chainEpoch,
                                !.lock = "free",
                                !.epochPc = IF @ = "building" THEN "setEpoch" ELSE @]
    /\ UNCHANGED <<pendingCoins, coin, buy, mon, race, vet, funder, late, quote, curve, mint, reg, route, find, logs>>

\* buildVoteAccounts, from after Lock() to the deferred Unlock(): entries are
\* added to the map, none is removed
buildVoteAccounts ==
    /\ holdsLock("buildVoteAccounts")
    /\ \E res \in VoteAccountResults :
           jito' = [jito EXCEPT !.voteAccounts = MapPutAll(@, res),
                                !.lock = "free"]
    /\ UNCHANGED <<pendingCoins, coin, buy, mon, race, vet, funder, late, quote, curve, mint, reg, route, find, logs>>

\* buildJitoValidators, from after Lock() to the deferred Unlock(): the map
\* is replaced by the VoteAccount of the entries with RunningJito
buildJitoValidators ==
    /\ holdsLock("buildJitoValidators")
    /\ \E validators \in SUBSET ValidatorEntries :
           jito' = [jito EXCEPT !.jitoValidators =
                                    {v.VoteAccount : v \in {e \in validators : e.RunningJito}},
                                !.lock = "free"]
    /\ UNCHANGED <<pendingCoins, coin, buy, mon, race, vet, funder, late, quote, curve, mint, reg, route, find, logs>>

\* the cluster crosses an epoch boundary: GetEpochInfo and GetLeaderSchedule
\* answer for the next epoch from now on
epochBoundary ==
    /\ jito.chainEpoch + 1 \in Epochs
    /\ jito' = [jito EXCEPT !.chainEpoch = @ + 1]
    /\ UNCHANGED <<pendingCoins, coin, buy, mon, race, vet, funder, late, quote, curve, mint, reg, route, find, logs>>

\* fetchEpochInfo: GetEpochInfo succeeded (a failure returns with nothing
\* changed): j.slotIndex = schedule.SlotIndex
fetchEpochInfoSlot ==
    /\ jito.epochPc = "idle"
    /\ \E slotIndex \in Slots :
           jito' = [jito EXCEPT !.slotIndex = slotIndex, !.schedEpoch = jito.chainEpoch,
                                !.epochPc = "compare"]
    /\ UNCHANGED <<pendingCoins, coin, buy, mon, race, vet, funder, late, quote, curve, mint, reg, route, find, logs>>

\* fetchEpochInfo: `if j.epoch != schedule.Epoch`
fetchEpochInfoCompare ==
    /\ jito.epochPc = "compare"
    /\ jito' = [jito EXCEPT !.epochPc = IF jito.epoch # jito.schedEpoch
                                        THEN "schedule" ELSE "idle"]
    /\ UNCHANGED <<pendingCoins, coin, buy, mon, race, vet, funder, late, quote, curve, mint, reg, route, find, logs>>

\* fetchEpochInfoSchedule that stores the polled epoch also when
\* GetLeaderSchedule fails
fetchEpochInfoScheduleRecordsEpoch ==
    /\ jito.epochPc = "schedule"
    /\ \/ jito' = [jito EXCEPT !.epochPc = "idle", !.epoch = jito.schedEpoch]
       \/ /\ jito.lock = "free"
          /\ jito' = [jito EXCEPT !.lock = "buildLeaderSchedule", !.epochPc = "building"]
    /\ UNCHANGED <<pendingCoins, coin, buy, mon, race, vet, funder, late, quote, curve, mint, reg, route, find, logs>>

\* fetchEpochInfo calls fetchLeaderSchedule: GetLeaderSchedule fails and
\* fetchEpochInfo returns the error, or buildLeaderSchedule takes the lock
fetchEpochInfoSchedule ==
    /\ jito.epochPc = "schedule"
    /\ \/ jito' = [jito EXCEPT !.epochPc = "idle"]
       \/ /\ jito.lock = "free"
          /\ jito' = [jito EXCEPT !.lock = "buildLeaderSchedule", !.epochPc = "building"]
    /\ UNCHANGED <<pendingCoins, coin, buy, mon, race, vet, funder, late, quote, curve, mint, reg, route, find, logs>>

\* fetchEpochInfo: j.epoch = schedule.Epoch
fetchEpochInfoEpoch ==
    /\ jito.epochPc = "setEpoch"
    /\ jito' = [jito EXCEPT !.epoch = jito.schedEpoch,
                            !.epochPc = "idle"]
    /\ UNCHANGED <<pendingCoins, coin, buy, mon, race, vet, funder, late, quote, curve, mint, reg, route, find, logs>>

\* subscribeTipStream: util.SubscribeTipStream returns the channels, or an
\* error, in which case manageTipStream calls subscribeTipStream again
subscribeTipStreamDial ==
    /\ jito.stream = "dial"
    /\ \E ok \in BOOLEAN : jito' = [jito EXCEPT !.stream = IF ok THEN "recv" ELSE "dial"]
    /\ UNCHANGED <<pendingCoins, coin, buy, mon, race, vet, funder, late, quote, curve, mint, reg, route, find, logs>>

\* subscribeTipStream: `case info := <-infoChan`: j.tipInfo = info
subscribeTipStreamInfo ==
    /\ jito.stream = "recv"
    /\ \E info \in TipSamples :
           jito' = [jito EXCEPT !.tipInfo = info, !.ingested = info]
    /\ UNCHANGED <<pendingCoins, coin, buy, mon, race, vet, funder, late, quote, curve, mint, reg, route, find, logs>>

\* subscribeTipStreamErr that drops the sample it holds
subscribeTipStreamErrForgets ==
    /\ jito.stream = "recv"
    /\ jito' = [jito EXCEPT !.stream = "dial", !.tipInfo = NilTip]
    /\ UNCHANGED <<pendingCoins, coin, buy, mon, race, vet, funder, late, quote, curve, mint, reg, route, find, logs>>

\* subscribeTipStream: `case err = <-errChan`: return err; manageTipStream
\* logs it and calls subscribeTipStream again
subscribeTipStreamErr ==
    /\ jito.stream = "recv"
    /\ jito' = [jito EXCEPT !.stream = "dial"]
    /\ UNCHANGED <<pendingCoins, coin, buy, mon, race, vet, funder, late, quote, curve, mint, reg, route, find, logs>>

\* if j.tipInfo == nil return 2000000;
\* return uint64(j.tipInfo.LandedTips75ThPercentile * 1e9)
generateTipAmount(j) ==
    IF j.tipInfo = NilTip THEN DefaultTip ELSE TipLamports(j.tipInfo)

\* a call of generateTipAmount (by generateTipInstruction)
generateTipAmountReturn ==
    /\ jito' = [jito EXCEPT !.tipRet = generateTipAmount(jito)]
    /\ UNCHANGED <<pendingCoins, coin, buy, mon, race, vet, funder, late, quote, curve, mint, reg, route, find, logs>>

JitoLockers ==
    {"isJitoLeader", "buildLeaderSchedule", "buildVoteAccounts", "buildJitoValidators"}

InitJito == LifeIdle /\ VetIdle /\ LateIdle /\ QuoteIdle /\ CurveIdle /\ MintIdle /\ JitoInit /\ RegIdle /\ RouteIdle /\ FindIdle /\ LogsIdle

NextJito ==
    \/ \E f \in JitoLockers : jitoLock(f)
    \/ isJitoLeaderReturn
    \/ buildLeaderSchedule
    \/ buildVoteAccounts
    \/ buildJitoValidators
    \/ fetchEpochInfoSlot
    \/ fetchEpochInfoCompare
    \/ fetchEpochInfoSchedule
    \/ fetchEpochInfoEpoch
    \/ subscribeTipStreamDial
    \/ subscribeTipStreamInfo
    \/ subscribeTipStreamErr
    \/ generateTipAmountReturn
    \/ epochBoundary

SpecJito == InitJito /\ [][NextJito]_vars

----------------------------------------------------------------------------
(* The registry of two assets, with pendingCoinsLock explicit *)

RegInit == reg = RegNew

\* purchaseCoin calls addNewPendingCoin: b.pendingCoinsLock.Lock()
addNewPendingCoinLock(m) ==
    /\ reg.buy[m] = "queued"
    /\ reg.lock = Free
    /\ reg' = [reg EXCEPT !.lock = <<"addNewPendingCoin", m>>, !.buy[m] = "adding"]
    /\ UNCHANGED <<pendingCoins, coin, buy, mon, race, vet, funder, late, quote, curve, mint, jito, route, find, logs>>

\* addNewPendingCoinStore replacing the map by one that holds this coin only
addNewPendingCoinStoreAlone(m) ==
    /\ reg.buy[m] = "adding"
    /\ reg' = [reg EXCEPT !.pendingCoins = {m},
                          !.lock = Free,
                          !.buy[m] = "buying", !.mon[m] = "run"]
    /\ UNCHANGED <<pendingCoins, coin, buy, mon, race, vet, funder, late, quote, curve, mint, jito, route, find, logs>>

\* addNewPendingCoin: b.pendingCoins[mintAddr] = coin and the deferred
\* Unlock; back in purchaseCoin, `go b.listenCreatorSell(coin)` and the call
\* of BuyCoin
addNewPendingCoinStore(m) ==
    /\ reg.buy[m] = "adding"
    /\ reg' = [reg EXCEPT !.pendingCoins = @ \cup {m},
                          !.lock = Free,
                          !.buy[m] = "buying", !.mon[m] = "run"]
    /\ UNCHANGED <<pendingCoins, coin, buy, mon, race, vet, funder, late, quote, curve, mint, jito, route, find, logs>>

\* BuyCoin returns an error: the deferred setExitedBuyCoinTrue
regBuyCoinError(m) ==
    /\ reg.buy[m] = "buying"
    /\ reg' = [reg EXCEPT !.coin[m].exitedBuyCoin = TRUE, !.buy[m] = "done"]
    /\ UNCHANGED <<pendingCoins, coin, buy, mon, race, vet, funder, late, quote, curve, mint, jito, route, find, logs>>

\* BuyCoin after a dispatch that counts as sent: coin.botPurchased = true
regBuyCoinSetBotPurchased(m) ==
    /\ reg.buy[m] = "buying"
    /\ reg' = [reg EXCEPT !.coin[m].botPurchased = TRUE, !.buy[m] = "setTokensHeld"]
    /\ UNCHANGED <<pendingCoins, coin, buy, mon, race, vet, funder, late, quote, curve, mint, jito, route, find, logs>>

\* BuyCoin: coin.tokensHeld = tokensToBuy
regBuyCoinSetTokensHeld(m) ==
    /\ reg.buy[m] = "setTokensHeld"
    /\ \E q \in RegQuantities :
           reg' = [reg EXCEPT !.coin[m].tokensHeld = q, !.buy[m] = "setATA"]
    /\ UNCHANGED <<pendingCoins, coin, buy, mon, race, vet, funder, late, quote, curve, mint, jito, route, find, logs>>

\* BuyCoin: coin.associatedTokenAccount = *ataAddress
regBuyCoinSetATA(m) ==
    /\ reg.buy[m] = "setATA"
    /\ reg' = [reg EXCEPT !.coin[m].associatedTokenAccount = "ata", !.buy[m] = "setSignature"]
    /\ UNCHANGED <<pendingCoins, coin, buy, mon, race, vet, funder, late, quote, curve, mint, jito, route, find, logs>>

\* BuyCoin: coin.buyTransactionSignature = &tx.Signatures[0]
regBuyCoinSetSignature(m) ==
    /\ reg.buy[m] = "setSignature"
    /\ reg' = [reg EXCEPT !.coin[m].buyTransactionSignature = "sig", !.buy[m] = "return"]
    /\ UNCHANGED <<pendingCoins, coin, buy, mon, race, vet, funder, late, quote, curve, mint, jito, route, find, logs>>

\* BuyCoin: return nil, and the deferred setExitedBuyCoinTrue
regBuyCoinReturnNil(m) ==
    /\ reg.buy[m] = "return"
    /\ reg' = [reg EXCEPT !.coin[m].exitedBuyCoin = TRUE, !.buy[m] = "done"]
    /\ UNCHANGED <<pendingCoins, coin, buy, mon, race, vet, funder, late, quote, curve, mint, jito, route, find, logs>>

\* listenCreatorSell after a notification: the test of line 82 on the flags
\* of the record ends the listener
regListenerStop(m) ==
    /\ reg.mon[m] = "run"
    /\ listenerShouldStop(reg.coin[m])
    /\ reg' = [reg EXCEPT !.mon[m] = "exit"]
    /\ UNCHANGED <<pendingCoins, coin, buy, mon, race, vet, funder, late, quote, curve, mint, jito, route, find, logs>>

\* listenCreatorSell calls setCreatorSold (after a subscribe error, a receive
\* error or a detected sale): b.pendingCoinsLock.Lock()
setCreatorSoldLock(m) ==
    /\ reg.mon[m] = "run"
    /\ reg.lock = Free
    /\ reg' = [reg EXCEPT !.lock = <<"setCreatorSold", m>>, !.mon[m] = "marking"]
    /\ UNCHANGED <<pendingCoins, coin, buy, mon, race, vet, funder, late, quote, curve, mint, jito, route, find, logs>>

\* setCreatorSold: the flag is set if the mint is a key of the map; the
\* deferred Unlock
setCreatorSoldStore(m) ==
    /\ reg.mon[m] = "marking"
    /\ reg' = [reg EXCEPT !.coin[m].creatorSold = (@ \/ m \in reg.pendingCoins),
                          !.lock = Free,
                          !.mon[m] = "exit"]
    /\ UNCHANGED <<pendingCoins, coin, buy, mon, race, vet, funder, late, quote, curve, mint, jito, route, find, logs>>

\* listenCreatorSell returns: the deferred setExitedCreatorListenerTrue
regSetExitedCreatorListenerTrue(m) ==
    /\ reg.mon[m] = "exit"
    /\ reg' = [reg EXCEPT !.coin[m].exitedCreatorListener = TRUE, !.mon[m] = "done"]
    /\ UNCHANGED <<pendingCoins, coin, buy, mon, race, vet, funder, late, quote, curve, mint, jito, route, find, logs>>

\* HandleSellCoins calls fetchCoinsToSell: b.pendingCoinsLock.Lock()
fetchCoinsToSellLock ==
    /\ reg.scan = "sleep"
    /\ reg.lock = Free
    /\ reg' = [reg EXCEPT !.lock = <<"fetchCoinsToSell", "none">>, !.scan = "locked"]
    /\ UNCHANGED <<pendingCoins, coin, buy, mon, race, vet, funder, late, quote, curve, mint, jito, route, find, logs>>

\* the removal conditions of fetchCoinsToSell
regRemovable(c) ==
    \/ c.exitedBuyCoin /\ ~botHoldsTokens(c)
    \/ c.exitedSellCoin /\ c.exitedCreatorListener

regCoinsToDelete == {m \in reg.pendingCoins : regRemovable(reg.coin[m])}

regCoinsToSell ==
    {m \in reg.pendingCoins :
        /\ botHoldsTokens(reg.coin[m])
        /\ reg.coin[m].creatorSold /\ ~reg.coin[m].isSellingCoin}

\* fetchCoinsToSell, the loop over the map and the deferred Unlock; back in
\* HandleSellCoins, `go b.SellCoinFast(coin)` for each returned coin (one
\* SellCoinFast per asset is followed)
fetchCoinsToSellScan ==
    /\ reg.scan = "locked"
    /\ \A m \in regCoinsToSell : reg.sell[m] = "idle"
    /\ reg' = [reg EXCEPT !.pendingCoins = @ \ regCoinsToDelete,
                          !.sell = [m \in RegMints |->
                                       IF m \in regCoinsToSell THEN "start" ELSE @[m]],
                          !.lock = Free,
                          !.scan = "sleep"]
    /\ UNCHANGED <<pendingCoins, coin, buy, mon, race, vet, funder, late, quote, curve, mint, jito, route, find, logs>>

\* SellCoinFast: coin.isSellingCoin = true
regSellCoinFastStart(m) ==
    /\ reg.sell[m] = "start"
    /\ reg' = [reg EXCEPT !.coin[m].isSellingCoin = TRUE, !.sell[m] = "run"]
    /\ UNCHANGED <<pendingCoins, coin, buy, mon, race, vet, funder, late, quote, curve, mint, jito, route, find, logs>>

\* SellCoinFast returns: the deferred setExitedSellCoinTrue
regSellCoinFastReturn(m) ==
    /\ reg.sell[m] = "run"
    /\ reg' = [reg EXCEPT !.coin[m].exitedSellCoin = TRUE, !.sell[m] = "done"]
    /\ UNCHANGED <<pendingCoins, coin, buy, mon, race, vet, funder, late, quote, curve, mint, jito, route, find, logs>>

InitRegistry ==
    /\ LifeIdle /\ VetIdle /\ LateIdle /\ QuoteIdle /\ CurveIdle /\ MintIdle
    /\ JitoIdle /\ RegInit /\ RouteIdle /\ FindIdle /\ LogsIdle

NextRegistry ==
    \/ \E m \in RegMints : addNewPendingCoinLock(m)
    \/ \E m \in RegMints : addNewPendingCoinStore(m)
    \/ \E m \in RegMints : regBuyCoinError(m)
    \/ \E m \in RegMints : regBuyCoinSetBotPurchased(m)
    \/ \E m \in RegMints : regBuyCoinSetTokensHeld(m)
    \/ \E m \in RegMints : regBuyCoinSetATA(m)
    \/ \E m \in RegMints : regBuyCoinSetSignature(m)
    \/ \E m \in RegMints : regBuyCoinReturnNil(m)
    \/ \E m \in RegMints : regListenerStop(m)
    \/ \E m \in RegMints : setCreatorSoldLock(m)
    \/ \E m \in RegMints : setCreatorSoldStore(m)
    \/ \E m \in RegMints : regSetExitedCreatorListenerTrue(m)
    \/ fetchCoinsToSellLock
    \/ fetchCoinsToSellScan
    \/ \E m \in RegMints : regSellCoinFastStart(m)
    \/ \E m \in RegMints : regSellCoinFastReturn(m)

SpecRegistry == InitRegistry /\ [][NextRegistry]_vars

----------------------------------------------------------------------------
(* BuyCoin / sellCoin: the instruction list and the path of one attempt *)

\* the states of the maps an attempt can meet
RouteManagers ==
    {[JitoNew EXCEPT !.slotIndex = si, !.slotLeader = sl, !.voteAccounts = va,
                     !.jitoValidators = jv] :
        si \in Slots, sl \in LeaderSchedules, va \in VoteAccountResults,
        jv \in SUBSET (VoteIds \cup {EmptyString})}

\* a BuyCoin that has its buy instruction, with or without a createATA
\* instruction, or a sellCoin called with sendVanilla true or false
RouteInit ==
    \E kind \in {"buy", "sell"}, flag \in BOOLEAN, j \in RouteManagers :
        route = [NoRoute EXCEPT !.pc = "build", !.kind = kind, !.j = j,
                                !.shouldCreateATA = (kind = "buy" /\ flag),
                                !.sendVanilla = (kind = "sell" /\ flag)]

\* BuyCoin: enableJito := isJitoLeader();
\* sellCoin: enableJito := isJitoLeader() && !sendVanilla
enableJito(r) == isJitoLeader(r.j) /\ ~r.sendVanilla

\* the list before the routing decision: {cupInst, culInst, [createAta,]
\* buy} in BuyCoin, {cupInst, culInst, sell} in sellCoin
baseInstructions(r) ==
    IF r.kind = "sell" THEN <<"cup", "cul", "sell">>
    ELSE IF r.shouldCreateATA THEN <<"cup", "cul", "ata", "buy">>
    ELSE <<"cup", "cul", "buy">>

\* withTip keeping the priority fee next to the tip
withTipKeepsFee(instructions) == Append(instructions, "tip")

\* instructions = append(instructions, tipInst); instructions = instructions[1:]
withTip(instructions) == Tail(Append(instructions, "tip"))

\* the instruction list is built: the routing decision, and with enableJito
\* the tip instruction (an error of generateTipInstruction is log.Fatal)
routeBuild ==
    /\ route.pc = "build"
    /\ \/ route' = [route EXCEPT !.pc = "create", !.enableJito = enableJito(route),
                                 !.instructions = IF enableJito(route)
                                                  THEN withTip(baseInstructions(route))
                                                  ELSE baseInstructions(route)]
       \/ /\ enableJito(route)
          /\ route' = [route EXCEPT !.pc = "fatal", !.enableJito = TRUE]
    /\ UNCHANGED <<pendingCoins, coin, buy, mon, race, vet, funder, late, quote, curve, mint, jito, reg, find, logs>>

\* createTransaction: the transaction, or an error that is returned
createTransaction ==
    /\ route.pc = "create"
    /\ \E ok \in BOOLEAN : route' = [route EXCEPT !.pc = IF ok THEN "send" ELSE "done"]
    /\ UNCHANGED <<pendingCoins, coin, buy, mon, race, vet, funder, late, quote, curve, mint, jito, reg, find, logs>>

\* signAndSendTx: tx.Sign fails, or the transaction goes out as a bundle
\* (BroadcastBundle) when enableJito and through sendTxVanilla otherwise
signAndSendTx ==
    /\ route.pc = "send"
    /\ \E signed \in BOOLEAN :
           route' = [route EXCEPT !.pc = "done",
                                  !.via = IF ~signed THEN "none"
                                          ELSE IF route.enableJito THEN "jito" ELSE "vanilla"]
    /\ UNCHANGED <<pendingCoins, coin, buy, mon, race, vet, funder, late, quote, curve, mint, jito, reg, find, logs>>

InitRoute ==
    /\ LifeIdle /\ VetIdle /\ LateIdle /\ QuoteIdle /\ CurveIdle /\ MintIdle
    /\ JitoIdle /\ RegIdle /\ RouteInit /\ FindIdle /\ LogsIdle

NextRoute == routeBuild \/ createTransaction \/ signAndSendTx

SpecRoute == InitRoute /\ [][NextRoute]_vars

----------------------------------------------------------------------------
(* Funder discovery: findFundersFromResps / checkHasFunder *)

\* the largest number of fetched transactions handed to findFundersFromResps
MaxResponses == 4

\* checkHasFunder: solAmount > 0.05, with solAmount = lamports / 10^9
MinFunderLamports == 50000000

CreatorAddress == "creator"

\* a system transfer instruction, and an instruction that does not decode
\* as one
Transfer(from, lamports) == [transfer |-> TRUE, from |-> from, lamports |-> lamports]

OtherInstruction == [transfer |-> FALSE, from |-> "", lamports |-> 0]

\* the instruction lists of the fetched transactions: none, no transfer,
\* a transfer made by the creator, transfers of exactly 0.05 SOL and of one
\* lamport more by other addresses, and lists with two transfers
TxInstructions ==
    { <<>>,
      <<OtherInstruction>>,
      <<Transfer(CreatorAddress, MinFunderLamports + 1)>>,
      <<Transfer("funderA", MinFunderLamports)>>,
      <<Transfer("funderA", MinFunderLamports + 1)>>,
      <<OtherInstruction, Transfer("funderB", MinFunderLamports + 1)>>,
      <<Transfer("funderA", MinFunderLamports), Transfer("funderB", MinFunderLamports + 1)>>,
      <<Transfer("funderA", MinFunderLamports + 1), Transfer("funderB", MinFunderLamports + 1)>> }

\* the responses: one that yields no transaction (GetObject or
\* GetTransaction fails, or the transaction is nil), or a transaction
FundResponses ==
    {[ok |-> FALSE, instructions |-> <<>>]} \cup {[ok |-> TRUE, instructions |-> t] : t \in TxInstructions}

ResponseLists == UNION {[1..n -> FundResponses] : n \in 0..MaxResponses}

FindInit ==
    find \in {[NoFind EXCEPT !.pc = "loop", !.responses = rs, !.creatorAddress = CreatorAddress] :
                 rs \in ResponseLists}

\* checkHasFunder's test on one decoded transfer
isFunderTransfer(inst, creatorAddr) ==
    inst.transfer /\ inst.from # creatorAddr /\ inst.lamports > MinFunderLamports

\* isFunderTransfer with the 0.05 SOL bound included
checkHasFunderAtThreshold(instructions, creatorAddr) ==
    LET hits == {i \in 1..Len(instructions) :
                    /\ instructions[i].transfer /\ instructions[i].from # creatorAddr
                    /\ instructions[i].lamports >= MinFunderLamports}
    IN  IF hits = {} THEN ""
        ELSE instructions[CHOOSE i \in hits : \A k \in hits : i <= k].from

\* checkHasFunder: the funding account of the first instruction that is a
\* transfer by another address than the creator of more than 0.05 SOL, or ""
checkHasFunder(instructions, creatorAddr) ==
    LET hits == {i \in 1..Len(instructions) : isFunderTransfer(instructions[i], creatorAddr)}
    IN  IF hits = {} THEN ""
        ELSE instructions[CHOOSE i \in hits : \A k \in hits : i <= k].from

\* findFundersFromResps: one pass of the loop over the responses
findFundersFromRespsStep ==
    /\ find.pc = "loop" /\ find.idx < Len(find.responses)
    /\ LET response == find.responses[find.idx + 1]
           found == checkHasFunder(response.instructions, find.creatorAddress)
           funders == IF response.ok /\ found # "" THEN Append(find.funders, found)
                      ELSE find.funders
       IN  find' = [find EXCEPT !.idx = @ + 1, !.funders = funders,
                                !.pc = IF response.ok /\ Len(funders) = FundersLimit
                                       THEN "done" ELSE "loop"]
    /\ UNCHANGED <<pendingCoins, coin, buy, mon, race, vet, funder, late, quote, curve, mint, jito, reg, route, logs>>

\* findFundersFromResps: the responses are used up, return funders
findFundersFromRespsReturn ==
    /\ find.pc = "loop" /\ find.idx = Len(find.responses)
    /\ find' = [find EXCEPT !.pc = "done"]
    /\ UNCHANGED <<pendingCoins, coin, buy, mon, race, vet, funder, late, quote, curve, mint, jito, reg, route, logs>>

InitFunders ==
    /\ LifeIdle /\ VetIdle /\ LateIdle /\ QuoteIdle /\ CurveIdle /\ MintIdle
    /\ JitoIdle /\ RegIdle /\ RouteIdle /\ FindInit /\ LogsIdle

NextFunders == findFundersFromRespsStep \/ findFundersFromRespsReturn

SpecFunders == InitFunders /\ [][NextFunders]_vars

----------------------------------------------------------------------------
(* HandleNewMints: one log message, from its entries to the registry *)

\* the largest number of log entries of a message
MaxLogEntries == 3

\* the messages: for each log entry whether it contains "InitializeMint2"
LogMessages == UNION {[1..n -> BOOLEAN] : n \in 1..MaxLogEntries}

\* HandleNewMints: sub.Recv() returned a message
LogsInit == logs \in {[NoLogs EXCEPT !.pc = "scan", !.entries = es] : es \in LogMessages}

\* HandleNewMints: one pass of `for _, logEntry := range msg.Value.Logs`:
\* continue unless isMintLog(logEntry), else
\* `go b.checkAndSignalBuyCoin(msg.Value.Signature)`
HandleNewMintsEntry ==
    /\ logs.pc = "scan"
    /\ IF logs.idx < Len(logs.entries)
       THEN logs' = [logs EXCEPT !.idx = @ + 1,
                                 !.checks = IF logs.entries[logs.idx + 1]
                                            THEN Append(@, "check") ELSE @]
       ELSE logs' = [logs EXCEPT !.pc = "recv"]
    /\ UNCHANGED <<pendingCoins, coin, buy, mon, race, vet, funder, late, quote, curve, mint, jito, reg, route, find>>

\* checkAndSignalBuyCoin for the signature of the message: it returns
\* (fetchMintDetails failed, shouldBuyCoin said no, or the fetch took too
\* long) or reaches `b.coinsToBuy <- newCoin` with a new Coin for the mint of
\* that transaction
checkAndSignalBuyCoinRun(i) ==
    /\ i \in DOMAIN logs.checks /\ logs.checks[i] = "check"
    /\ \E next \in {"returned", "send"} : logs' = [logs EXCEPT !.checks[i] = next]
    /\ UNCHANGED <<pendingCoins, coin, buy, mon, race, vet, funder, late, quote, curve, mint, jito, reg, route, find>>

\* HandleBuyCoins: `for coin := range b.coinsToBuy { go b.purchaseCoin(coin) }`
\* takes the candidate of goroutine i
HandleBuyCoinsRecv(i) ==
    /\ i \in DOMAIN logs.checks /\ logs.checks[i] = "send"
    /\ logs' = [logs EXCEPT !.checks[i] = "signalled", !.purchases = Append(@, "spawned")]
    /\ UNCHANGED <<pendingCoins, coin, buy, mon, race, vet, funder, late, quote, curve, mint, jito, reg, route, find>>

\* purchaseCoin: b.addNewPendingCoin(coin) stores the candidate's record
\* under its mint address, whatever the map holds there, then
\* `go b.listenCreatorSell(coin)` and BuyCoin(coin) run on that record
purchaseCoinAdmit(k) ==
    /\ k \in DOMAIN logs.purchases /\ logs.purchases[k] = "spawned"
    /\ logs' = [logs EXCEPT !.purchases[k] = "running"]
    /\ UNCHANGED <<pendingCoins, coin, buy, mon, race, vet, funder, late, quote, curve, mint, jito, reg, route, find>>

\* BuyCoin, listenCreatorSell and any SellCoinFast of the record of
\* purchase k have all returned
purchaseCoinTasksEnd(k) ==
    /\ k \in DOMAIN logs.purchases /\ logs.purchases[k] = "running"
    /\ logs' = [logs EXCEPT !.purchases[k] = "ended"]
    /\ UNCHANGED <<pendingCoins, coin, buy, mon, race, vet, funder, late, quote, curve, mint, jito, reg, route, find>>

InitLogs ==
    /\ LifeIdle /\ VetIdle /\ LateIdle /\ QuoteIdle /\ CurveIdle /\ MintIdle
    /\ JitoIdle /\ RegIdle /\ RouteIdle /\ FindIdle /\ LogsInit

NextLogs ==
    \/ HandleNewMintsEntry
    \/ \E i \in 1..MaxLogEntries : checkAndSignalBuyCoinRun(i)
    \/ \E i \in 1..MaxLogEntries : HandleBuyCoinsRecv(i)
    \/ \E k \in 1..MaxLogEntries : purchaseCoinAdmit(k)
    \/ \E k \in 1..MaxLogEntries : purchaseCoinTasksEnd(k)

SpecLogs == InitLogs /\ [][NextLogs]_vars

----------------------------------------------------------------------------
(* Properties *)

\* a race has been spawned or is running
raceInProgress(r) == race[r].pc \in {"start", "wait", "sleep"}

\* the step spawns a SellCoinFast goroutine in slot r, i.e. the scan of the
\* step returned race'[r].coin
selectedInStep(r) == race[r].pc = "idle" /\ race'[r].pc = "start"

\* the context of race r is done, every sellCoinWrapper it dispatched has
\* returned, none of them was confirmed, and SellCoinFast is still at `<-result`
raceOverUnconfirmed(r) ==
    /\ race[r].pc = "wait"
    /\ race[r].ctxDone
    /\ race[r].inflight = 0
    /\ race[r].result = 0

\* C1: every isSafeFunder goroutine that has returned has delivered exactly
\* one result, and shouldBuyCoin is never left at its receive with every
\* goroutine returned and results still missing.
C1_EveryFunderCheckDelivers ==
    /\ \A i \in DOMAIN funder : funder[i].pc = "done" => funder[i].sent = 1
    /\ ~(/\ vet.pc = "collect"
         /\ vet.received < Len(vet.creatorFunders)
         /\ \A i \in DOMAIN funder : funder[i].pc = "done")

\* C2: once the deadline of a disposal race has passed and every attempt it
\* dispatched has returned, SellCoinFast is no longer waiting, also when no
\* attempt was confirmed; and a race that is over has exitedSellCoin set.
C2_RaceStopsAtDeadline ==
    \A r \in Races :
        /\ (race[r].pc # "idle" /\ race[r].ctxDone /\ race[r].inflight = 0 /\ race[r].result = 0)
              => race[r].pc \in {"sleep", "done"}
        /\ race[r].pc = "done" => coin[race[r].coin].exitedSellCoin

\* C3: an asset whose disposal race ended at the deadline without a confirmed
\* transaction, which is still held, in the registry and has creatorSold,
\* and for which no other race is in progress, is returned by the next scan.
C3_UnconfirmedRaceIsRetriggered ==
    \A r \in Races :
        LET c == race[r].coin IN
        (/\ raceOverUnconfirmed(r)
         /\ c \in pendingCoins
         /\ botHoldsTokens(coin[c])
         /\ coin[c].creatorSold
         /\ \A q \in Races : (q # r /\ race[q].coin = c) => ~raceInProgress(q) \/ raceOverUnconfirmed(q))
            => c \in coinsToSell

\* C4: at most one disposal race per asset is in progress at any time.
C4_OneRacePerCoin ==
    \A c \in Coins :
        Cardinality({r \in Races : race[r].coin = c /\ raceInProgress(r)}) <= 1

\* C5 (as stated): whenever a scan selects an asset, botPurchased and
\* exitedBuyCoin are both true.
C5_SelectedAfterBuyCoinExited ==
    [][\A r \in Races :
          selectedInStep(r) =>
              coin[race'[r].coin].botPurchased /\ coin[race'[r].coin].exitedBuyCoin]_vars

\* C5 (amended): whenever a scan selects an asset, botPurchased is true and
\* BuyCoin has passed its dispatch and its assignment of tokensHeld; BuyCoin
\* need not have returned.
C5_SelectedAfterPurchaseRecorded ==
    [][\A r \in Races :
          selectedInStep(r) =>
              /\ coin[race'[r].coin].botPurchased
              /\ buy[race'[r].coin].sent = 1
              /\ buy[race'[r].coin].pc \in {"setATA", "setSignature", "return", "done"}]_vars

\* C5 witness: a race was spawned for an asset whose BuyCoin has not returned
C5_Witness ==
    \E r \in Races : race[r].pc = "start" /\ ~coin[race[r].coin].exitedBuyCoin

\* C6 (as stated): a record leaves the registry only if exitedSellCoin and
\* exitedCreatorListener are both true, or exitedBuyCoin is true and
\* botPurchased is false; a record with botPurchased never leaves before
\* exitedSellCoin.
C6_RemovedOnlyIfNeverAcquired ==
    [][\A c \in Coins :
          (c \in pendingCoins /\ c \notin pendingCoins') =>
              /\ \/ coin[c].exitedSellCoin /\ coin[c].exitedCreatorListener
                 \/ coin[c].exitedBuyCoin /\ ~coin[c].botPurchased
              /\ coin[c].botPurchased => coin[c].exitedSellCoin]_vars

\* C6 (amended): a record leaves the registry only if exitedSellCoin and
\* exitedCreatorListener are both true, or exitedBuyCoin is true and the
\* asset is not held (tokensHeld nil or at most 100).
C6_RemovedOnlyIfNotHeld ==
    [][\A c \in Coins :
          (c \in pendingCoins /\ c \notin pendingCoins') =>
              \/ coin[c].exitedSellCoin /\ coin[c].exitedCreatorListener
              \/ coin[c].exitedBuyCoin /\ ~botHoldsTokens(coin[c])]_vars

\* C6 witness: a purchased asset has left the registry without a disposal race
C6_Witness ==
    \E c \in Coins :
        /\ c \notin pendingCoins
        /\ coin[c].botPurchased
        /\ coin[c].tokensHeld # NilTokens
        /\ ~coin[c].exitedSellCoin

\* C7: BuyCoin has set exitedBuyCoin on every return, whatever it returns.
C7_ExitedBuyCoinOnEveryReturn ==
    \A c \in Coins : buy[c].ret # "none" => coin[c].exitedBuyCoin

\* C7 witness: BuyCoin has returned the late-entry error
C7_Witness ==
    \E c \in Coins : buy[c].ret = "errLateToCoin" /\ coin[c].exitedBuyCoin

\* C8: each of the six lifecycle flags, once true, is true in the next state.
C8_FlagsMonotonic ==
    [][\A c \in Coins :
          /\ coin[c].exitedBuyCoin => coin'[c].exitedBuyCoin
          /\ coin[c].exitedSellCoin => coin'[c].exitedSellCoin
          /\ coin[c].exitedCreatorListener => coin'[c].exitedCreatorListener
          /\ coin[c].isSellingCoin => coin'[c].isSellingCoin
          /\ coin[c].creatorSold => coin'[c].creatorSold
          /\ coin[c].botPurchased => coin'[c].botPurchased]_vars

\* C8 witness: all six flags are true and the race has returned
C8_Witness ==
    \E c \in Coins :
        /\ coin[c].exitedBuyCoin /\ coin[c].exitedSellCoin /\ coin[c].exitedCreatorListener
        /\ coin[c].isSellingCoin /\ coin[c].creatorSold /\ coin[c].botPurchased

\* C9: when lateToBuy holds at the guard, the step of BuyCoin returns
\* errLateToCoin, builds and dispatches nothing and changes no field of the
\* record but exitedBuyCoin; after that return botPurchased is false and the
\* trade-state fields have their initial values.
C9_LateEntryChangesOnlyExitFlag ==
    /\ [][\A c \in Coins :
            (/\ buy[c].pc = "guard"
             /\ lateToBuy(coin[c].creatorPurchaseSol, buy[c].bcd)
             /\ buy'[c] # buy[c]) =>
                /\ buy'[c].ret = "errLateToCoin"
                /\ buy'[c].sent = 0 /\ ~buy'[c].txBuilt
                /\ coin'[c] = [coin[c] EXCEPT !.exitedBuyCoin = TRUE]]_vars
    /\ [](\A c \in Coins :
            buy[c].ret = "errLateToCoin" =>
                /\ buy[c].sent = 0 /\ ~buy[c].txBuilt
                /\ ~coin[c].botPurchased
                /\ coin[c].tokensHeld = NilTokens
                /\ coin[c].buyPrice = 0
                /\ coin[c].associatedTokenAccount = "zero"
                /\ coin[c].buyTransactionSignature = "nil"
                /\ coin[c].exitedBuyCoin)

\* C9 witness: BuyCoin has returned the late-entry error
C9_Witness ==
    \E c \in Coins : buy[c].pc = "done" /\ buy[c].ret = "errLateToCoin"

\* C10 (as stated): with creatorPurchaseSol = 1.0, lateToBuy is true at
\* reserves of 31.05 SOL and false at 31.0 SOL.
C10_LateAt3105 ==
    (late.applied /\ late.creatorPurchaseSol = 20) =>
        /\ late.vSol = 621 => late.result
        /\ late.vSol = 620 => ~late.result

\* C10 (amended): with creatorPurchaseSol = 1.0, lateToBuy is false at
\* reserves of 31.05 SOL and of 31.0 SOL, and true at 31.15 SOL.
C10_NotLateAt3105 ==
    (late.applied /\ late.creatorPurchaseSol = 20) =>
        /\ late.vSol = 621 => ~late.result
        /\ late.vSol = 620 => ~late.result
        /\ late.vSol = 623 => late.result

\* C10 witness: lateToBuy was evaluated at 1.0 SOL purchased and 31.05 SOL
C10_Witness ==
    late.applied /\ late.creatorPurchaseSol = 20 /\ late.vSol = 621 /\ ~late.result

\* C11: at multiplier 1, for every unsigned purchase amount (those at or
\* above the sign bit included) and every snapshot with positive reserves,
\* calculateBuyQuote returns a value between 0 and virtualToken, and no
\* larger amount yields fewer units
C11_QuoteWithinReserves ==
    (quote.pc # "call" /\ quote.pc # "idle" /\ quote.pct = 100) =>
        /\ quote.pc = "returned"
        /\ quote.result >= 0
        /\ quote.result <= quote.vTok
        /\ \A a \in QuoteAmounts :
              (a >= quote.solAmount /\ ~quotePanics(a, quoteSnapshot)) =>
                  calculateBuyQuote(a, quoteSnapshot, 100) >= quote.result

C13_DecodeOrAbort ==
    LET byteAt(o, i) == curve.data[o + i]
        \* the unsigned little-endian value of the 8 bytes at offset o (the
        \* five high bytes of every field of CurveBlobs are zero)
        fieldAt(o) == byteAt(o, 1) + 256 * byteAt(o, 2) + 65536 * byteAt(o, 3)
        highZero(o) == \A i \in 4..8 : byteAt(o, i) = 0
    IN  /\ curve.pc = "decoded" =>
              /\ curve.account /\ Len(curve.data) >= 24
              /\ highZero(0) /\ highZero(8) /\ highZero(16)
              /\ curve.bcd.realTok = fieldAt(0)
              /\ curve.bcd.vTok = fieldAt(8)
              /\ curve.bcd.vSol = fieldAt(16)
        /\ curve.pc = "error" =>
              /\ ~curve.account \/ Len(curve.data) < 24
              /\ \A c \in Coins :
                    /\ buy[c].ret = "errFetchBondingCurve"
                    /\ buy[c].sent = 0 /\ ~buy[c].txBuilt
                    /\ ~coin[c].botPurchased /\ coin[c].tokensHeld = NilTokens
        /\ \A c \in Coins :
              (buy[c].pc \notin {"queued", "start"} /\ buy[c].ret # "errATAAddress"
                 /\ (~curve.account \/ Len(curve.data) < 24)) => curve.pc = "error"

\* a present account with a 23-byte blob: the decode failed and BuyCoin has
\* returned the error
C13_Witness ==
    /\ curve.pc = "error" /\ curve.account /\ Len(curve.data) = 23
    /\ \E c \in Coins : buy[c].pc = "done" /\ coin[c].exitedBuyCoin

\* every discovered funder is an allowlisted exchange address
allFundersExchange ==
    \A i \in 1..Len(vet.creatorFunders) : vet.creatorFunders[i] = "exchange"

\* C14 (as stated): a candidate is admitted only if its creator purchase size
\* lies strictly between the floor of 0.5 and the ceiling of 2.5 native units
C14_AdmittedStrictlyInsideBand ==
    vet.decision = "buy" =>
        /\ vet.creatorPurchaseSol > MinCreatorPurchase
        /\ vet.creatorPurchaseSol < MaxCreatorPurchase

\* C14 (amended): a candidate is admitted only if its creator purchase size
\* lies in the closed band from 0.5 to 2.5 native units; a size below the
\* floor or above the ceiling is rejected, and a size equal to the floor or
\* to the ceiling passes the price check and is admitted when the rest of
\* the vetting passes
C14_AdmittedInsideClosedBand ==
    /\ vet.decision = "buy" =>
          /\ vet.creatorPurchaseSol >= MinCreatorPurchase
          /\ vet.creatorPurchaseSol <= MaxCreatorPurchase
    /\ (vet.pc = "done" /\ (vet.creatorPurchaseSol < MinCreatorPurchase
                            \/ vet.creatorPurchaseSol > MaxCreatorPurchase)) =>
          (vet.decision = "skip" /\ vet.fetchAttempts = 0 /\ funder = <<>>)
    /\ (vet.pc = "done" /\ vet.creatorPurchaseSol \in {MinCreatorPurchase, MaxCreatorPurchase}
          /\ ~vet.creatorCreatedCoin /\ ~vet.fetchErr
          /\ Len(vet.creatorFunders) > 0 /\ allFundersExchange) =>
          vet.decision = "buy"

\* a candidate whose creator purchase equals the ceiling has been admitted
C14_Witness ==
    vet.pc = "done" /\ vet.decision = "buy" /\ vet.creatorPurchaseSol = MaxCreatorPurchase

\* C15: for a creator without creation history, a purchase of 0.4 or of 2.6
\* native units is rejected, a purchase of 1.0 with no discoverable funder is
\* rejected, and a purchase of 1.0 whose only funder is an allowlisted
\* exchange address is admitted
C15_VettingExamples ==
    (vet.pc = "done" /\ ~vet.creatorCreatedCoin) =>
        /\ vet.creatorPurchaseSol \in {8, 52} => vet.decision = "skip"
        /\ (vet.creatorPurchaseSol = 20 /\ vet.creatorFunders = <<>>) => vet.decision = "skip"
        /\ (vet.creatorPurchaseSol = 20 /\ ~vet.fetchErr /\ vet.creatorFunders = <<"exchange">>) =>
              vet.decision = "buy"

\* the purchase of 1.0 with one exchange funder has been vetted
C15_Witness ==
    /\ vet.pc = "done" /\ ~vet.creatorCreatedCoin /\ ~vet.fetchErr
    /\ vet.creatorPurchaseSol = 20 /\ vet.creatorFunders = <<"exchange">>
    /\ vet.received = 1

\* C16: a candidate is admitted only if every discovered funder's check
\* returned safe; with a funder that has creation history and is not
\* allowlisted the candidate is never admitted, and is rejected once every
\* result has arrived, in whatever order they arrive
C16_AdmittedOnlyIfAllSafe ==
    LET unsafe == \E i \in 1..Len(vet.creatorFunders) : vet.creatorFunders[i] = "createdCoin"
    IN  /\ vet.decision = "buy" =>
              /\ vet.safeFundersCount = Len(vet.creatorFunders)
              /\ \A i \in 1..Len(vet.creatorFunders) :
                    /\ vet.creatorFunders[i] = "exchange"
                    /\ funder[i].pc = "done" /\ funder[i].sent = 1
        /\ unsafe => vet.decision # "buy"
        /\ (unsafe /\ vet.pc = "done") => vet.decision = "skip"

\* three funders, the last one a prior creator, all three results received
\* and the candidate rejected
C16_Witness ==
    /\ vet.pc = "done" /\ vet.decision = "skip"
    /\ vet.creatorFunders = <<"exchange", "exchange", "createdCoin">>
    /\ vet.received = 3 /\ vet.safeFundersCount = 2

\* nothing of the candidate has reached HandleBuyCoins: no record in the
\* registry, purchaseCoin not spawned, no transaction dispatched
nothingHandedOver ==
    /\ ~mint.signalled
    /\ pendingCoins = {}
    /\ \A c \in Coins : buy[c].pc = "none" /\ buy[c].sent = 0 /\ ~buy[c].txBuilt

\* C17: when the retrieval of the creator's recent transactions fails,
\* shouldBuyCoin returns false at once after that single attempt: no funder
\* check is started, nothing is sent on coinsToBuy and the registry stays as
\* it was
C17_FetchErrorRejects ==
    vet.fetchErr =>
        /\ vet.pc = "done" /\ vet.decision = "skip"
        /\ vet.fetchAttempts = 1
        /\ funder = <<>> /\ vet.received = 0
        /\ mint.pc \in {"vetting", "done"}
        /\ nothingHandedOver

\* the retrieval failed for a creator who had funders to discover, and
\* checkAndSignalBuyCoin has returned
C17_Witness ==
    /\ vet.fetchErr /\ Len(vet.creatorFunders) > 0
    /\ vet.creatorPurchaseSol = 20 /\ ~vet.creatorCreatedCoin
    /\ mint.pc = "done"

\* C18: a candidate is sent on coinsToBuy only if fetchMintDetails succeeded,
\* shouldBuyCoin admitted it and the time since detection, read once after
\* the vetting, was at most 2 seconds; any other candidate never enters the
\* registry and never causes a dispatch
C18_HandedOverOnlyIfFresh ==
    /\ (mint.pc = "send" \/ mint.signalled) =>
          /\ mint.fetched
          /\ vet.pc = "done" /\ vet.decision = "buy"
          /\ mint.checked <= FreshnessLimit
    /\ ~mint.signalled => nothingHandedOver
    /\ (mint.pc = "done" /\ (~mint.fetched \/ vet.decision # "buy" \/ mint.checked > FreshnessLimit)) =>
          nothingHandedOver

\* a candidate that passed the guard at exactly 2 seconds was handed over
\* later than that, and its purchase has been dispatched
C18_Witness ==
    /\ mint.signalled /\ mint.checked = FreshnessLimit /\ mint.elapsed > FreshnessLimit
    /\ \E c \in Coins : c \in pendingCoins /\ buy[c].sent > 0

\* listenCreatorSell of asset c has left its loop on the given return path
\* and its deferred calls are pending
monitorLeaving(c, causes) == mon[c].pc = "exit" /\ mon[c].cause \in causes

\* the step takes listenCreatorSell of asset c onto one of the given return
\* paths
monitorLeaves(c, causes) ==
    mon[c].pc # "exit" /\ mon'[c].pc = "exit" /\ mon'[c].cause \in causes

\* once listenCreatorSell is on a return path it makes no further lookup: its
\* only step is the deferred exit, after which exitedCreatorListener is set
monitorTerminates ==
    /\ [][\A c \in Coins : mon[c].pc = "exit" =>
              (mon'[c] = mon[c] \/ (mon'[c].pc = "done" /\ coin'[c].exitedCreatorListener))]_vars
    /\ [](\A c \in Coins : mon[c].pc = "done" => coin[c].exitedCreatorListener)

\* C19 (as stated): when a lookup after a notification finds a sell or a
\* transfer out of the creator's token account, the asset has
\* creatorSold = true and the listener terminates without further lookups
C19_SaleFlagsCreatorSold ==
    \A c \in Coins : monitorLeaving(c, {"sale"}) => coin[c].creatorSold

\* C19 (amended): when a lookup finds a sell or a transfer, the listener sets
\* creatorSold = true if the asset's record is still in the registry, leaves
\* the record as it is if it has been removed, and in both cases terminates
\* without further lookups
C19_SaleFlagsIfRegistered ==
    /\ [][\A c \in Coins : monitorLeaves(c, {"sale"}) =>
              IF c \in pendingCoins THEN coin'[c].creatorSold ELSE coin'[c] = coin[c]]_vars
    /\ [](\A c \in Coins :
              (monitorLeaving(c, {"sale"}) /\ c \in pendingCoins) => coin[c].creatorSold)
    /\ monitorTerminates

\* a sale was found for an asset that is in the registry
C19_Witness ==
    \E c \in Coins :
        monitorLeaving(c, {"sale"}) /\ c \in pendingCoins /\ coin[c].creatorSold

\* C20 (as stated): after a failure to subscribe or to receive a
\* notification, the asset has creatorSold = true, whatever state the
\* acquisition attempt is in
C20_ErrorFlagsCreatorSold ==
    \A c \in Coins :
        monitorLeaving(c, {"subscribeError", "recvError"}) => coin[c].creatorSold

\* C20 (amended): after a failure to subscribe or to receive a notification
\* the listener terminates, having set creatorSold = true if the asset's
\* record is still in the registry and having left the record as it is if
\* the scan has already removed it
C20_ErrorFlagsIfRegistered ==
    /\ [][\A c \in Coins : monitorLeaves(c, {"subscribeError", "recvError"}) =>
              IF c \in pendingCoins THEN coin'[c].creatorSold ELSE coin'[c] = coin[c]]_vars
    /\ [](\A c \in Coins :
              (monitorLeaving(c, {"subscribeError", "recvError"}) /\ c \in pendingCoins) =>
                  coin[c].creatorSold)
    /\ [](\A c \in Coins : mon[c].pc = "done" => mon[c].cause = "none" /\ ~mon[c].subscribed)

\* a receive failed after BuyCoin had exited, for an asset still in the
\* registry
C20_Witness ==
    \E c \in Coins :
        /\ monitorLeaving(c, {"recvError"}) /\ c \in pendingCoins
        /\ coin[c].exitedBuyCoin /\ coin[c].creatorSold

\* the ticker goroutine of race r spawns a sellCoinWrapper in this step
dispatchedInStep(r) == race'[r].ticks = race[r].ticks + 1

\* C21 (as stated): at least half of the attempts dispatched in a race are
\* forced onto the standard path
C21_HalfForcedStandard ==
    \A r \in Races : 2 * race[r].forced >= race[r].ticks

\* C21 (amended): the attempts of a race alternate strictly, the first one
\* privileged-path-eligible, the second forced-standard, and so on, so that
\* of n attempts exactly n \div 2 (rounded down) are forced-standard: half
\* of them when n is even, one fewer than the eligible ones when n is odd
C21_AlternatesFromEligible ==
    /\ [][\A r \in Races : dispatchedInStep(r) =>
              /\ race'[r].sendVanilla = ~race[r].sendVanilla
              /\ race'[r].forced = race[r].forced + (IF race'[r].sendVanilla THEN 1 ELSE 0)]_vars
    /\ [](\A r \in Races :
              /\ race[r].sendVanilla = (race[r].ticks % 2 = 0)
              /\ race[r].forced = race[r].ticks \div 2)

\* a race has dispatched three attempts, only the second forced-standard
C21_Witness ==
    \E r \in Races :
        /\ raceInProgress(r)
        /\ race[r].ticks = 3 /\ race[r].forced = 1 /\ ~race[r].sendVanilla

\* a sell transaction of race r has been confirmed: its `result <- 1` is in
\* the buffer or SellCoinFast has already received it
raceConfirmed(r) == race[r].result = 1 \/ race[r].pc = "sleep"

\* C22: once a sell transaction of a race has been confirmed, the race
\* dispatches no further sell transaction
C22_NoDispatchAfterConfirmation ==
    [][\A r \in Races : raceConfirmed(r) => ~dispatchedInStep(r)]_vars

\* the three lookups of isJitoLeader all find an entry: the current slot has
\* a leader, the leader has a vote account, the vote account is a jito
\* validator
leaderChainResolves(j) ==
    /\ j.slotIndex \in DOMAIN j.slotLeader
    /\ j.slotLeader[j.slotIndex] \in DOMAIN j.voteAccounts
    /\ j.voteAccounts[j.slotLeader[j.slotIndex]] \in j.jitoValidators

\* isJitoLeader returns in this step
isJitoLeaderReturns == holdsLock("isJitoLeader") /\ jito'.lock = "free"

\* C23: isJitoLeader returns false when the current slot has no leader, and
\* returns true only when the slot has a leader, the leader has a vote
\* account and that vote account is a jito validator, whatever the maps hold
C23_LeaderOnlyIfChainResolves ==
    [][isJitoLeaderReturns =>
          /\ jito.slotIndex \notin DOMAIN jito.slotLeader => jito'.leaderRet = "false"
          /\ jito'.leaderRet = "true" => leaderChainResolves(jito)]_vars

\* what the claim expects of generateTipAmount: the default before the
\* first sample, afterwards the last delivered sample in lamports
expectedTip == IF jito.ingested = NilTip THEN DefaultTip ELSE TipLamports(jito.ingested)

\* C24: generateTipAmount returns 2,000,000 in every state before the first
\* sample of the tip stream, and in every state after it the 75th percentile
\* of the last delivered sample times 1e9 (as a uint64); once a sample has
\* arrived the default is never used again, also after the stream has
\* failed and been subscribed to again
C24_TipFollowsLastSample ==
    /\ [](generateTipAmount(jito) = expectedTip)
    /\ [][generateTipAmountReturn => jito'.tipRet = expectedTip]_vars
    /\ [][jito.ingested # NilTip => jito'.ingested # NilTip /\ jito'.tipInfo # NilTip]_vars

\* a sample has arrived, the stream has failed and awaits its next
\* subscription, and generateTipAmount returned the sample's value
C24_Witness ==
    /\ jito.ingested = 3 /\ jito.stream = "dial"
    /\ jito.tipRet = 1 /\ generateTipAmount(jito) = 1

\* BuyCoin gets its answer from signAndSendTx in this step
buySentInStep(c) == buy[c].pc = "send" /\ buy'[c].pc # "send"

\* C25: when signAndSendTx fails with "transaction has already been
\* processed" BuyCoin goes on as after a nil error: it sets botPurchased and
\* tokensHeld and returns nil.  After any other error of signAndSendTx it
\* returns the error, with botPurchased false and tokensHeld nil.
C25_DuplicateCountsAsSent ==
    /\ [][\A c \in Coins :
              /\ (buySentInStep(c) /\ buy'[c].err = "alreadyProcessed") =>
                      buy'[c].pc = "setBotPurchased"
              /\ (buySentInStep(c) /\ buy'[c].err = "none") =>
                      /\ buy'[c].ret = "errSend"
                      /\ ~coin'[c].botPurchased /\ coin'[c].tokensHeld = NilTokens
              /\ (buy[c].err = "alreadyProcessed" /\ buy'[c].pc = "done") =>
                      /\ buy'[c].ret = "nil"
                      /\ coin'[c].botPurchased /\ coin'[c].tokensHeld = buy[c].tokensToBuy]_vars
    /\ [](\A c \in Coins :
              /\ (buy[c].err = "alreadyProcessed" /\ buy[c].pc \in {"setATA", "setSignature", "return"}) =>
                      coin[c].botPurchased /\ coin[c].tokensHeld = buy[c].tokensToBuy
              /\ buy[c].ret = "errSend" =>
                      ~coin[c].botPurchased /\ coin[c].tokensHeld = NilTokens)

\* the duplicate-submission error came back and BuyCoin is about to return
\* nil with the purchase recorded
C25_Witness ==
    \E c \in Coins :
        /\ buy[c].pc = "return" /\ buy[c].err = "alreadyProcessed"
        /\ coin[c].botPurchased /\ coin[c].tokensHeld # NilTokens

\* the scan of this step spawns a SellCoinFast goroutine for asset c
scanSelects(c) == \E r \in Races : selectedInStep(r) /\ race'[r].coin = c

\* BuyCoin has written all four fields of a successful purchase
acquisitionRecorded(c) ==
    /\ coin[c].botPurchased /\ coin[c].tokensHeld # NilTokens
    /\ coin[c].associatedTokenAccount # "zero" /\ coin[c].buyTransactionSignature # "nil"

\* C26 (as stated): a scan that runs once the fields of a successful
\* purchase are written, on an asset with creatorSold = true that is not
\* being sold, selects the asset
C26_AcquiredIsSelected ==
    [][HandleSellCoins =>
          \A c \in pendingCoins :
              (acquisitionRecorded(c) /\ coin[c].creatorSold /\ ~coin[c].isSellingCoin)
                  => scanSelects(c)]_vars

\* C26 (amended): a scan selects exactly the registered assets whose
\* tokensHeld exceeds 100 units with creatorSold = true and isSellingCoin =
\* false, whether creatorSold was set before or after the purchase and
\* whether or not BuyCoin has written its remaining fields; a purchase of at
\* most 100 units is never selected.  Every tick of the spawned race, the
\* first included, starts one sell for that asset.
C26_HeldAboveThresholdIsSelected ==
    /\ [][HandleSellCoins =>
              \A c \in pendingCoins :
                  (botHoldsTokens(coin[c]) /\ coin[c].creatorSold /\ ~coin[c].isSellingCoin)
                      <=> scanSelects(c)]_vars
    /\ [][\A r \in Races : dispatchedInStep(r) =>
              /\ race'[r].inflight = race[r].inflight + 1
              /\ botHoldsTokens(coin[race[r].coin]) /\ coin[race[r].coin].creatorSold]_vars

\* creatorSold was set while BuyCoin was still running; the asset has been
\* selected and the first tick of its race has started a sell
C26_Witness ==
    \E r \in Races :
        /\ race[r].ticks = 1 /\ race[r].inflight = 1
        /\ race[r].coin \in Coins
        /\ coin[race[r].coin].creatorSold /\ buy[race[r].coin].pc = "setATA"

\* addNewPendingCoin has returned for asset m
admitted(m) == reg.buy[m] \notin {"queued", "adding"}

\* the boolean fields of a Coin record, each written by one component
CoinFlags ==
    {"creatorSold", "botPurchased", "exitedBuyCoin", "exitedSellCoin",
     "exitedCreatorListener", "isSellingCoin"}

\* C27: concurrent addNewPendingCoin calls for distinct mints, interleaved
\* with scans and setCreatorSold calls, all take effect: a call adds its key
\* and drops no other, a key leaves the map only in a scan and only under
\* the removal conditions of fetchCoinsToSell, so every admitted asset is in
\* the map or removable; and no field of a record falls back to an earlier
\* value
C27_AdmitsAllTakeEffect ==
    /\ [][\A m \in RegMints :
              (reg.buy[m] = "adding" /\ reg'.buy[m] # "adding") =>
                  m \in reg'.pendingCoins /\ reg.pendingCoins \subseteq reg'.pendingCoins]_vars
    /\ [][\A m \in reg.pendingCoins \ reg'.pendingCoins :
              reg.lock = <<"fetchCoinsToSell", "none">> /\ regRemovable(reg.coin[m])]_vars
    /\ [](\A m \in RegMints :
              admitted(m) => m \in reg.pendingCoins \/ regRemovable(reg.coin[m]))
    /\ [][\A m \in RegMints :
              /\ \A f \in CoinFlags : reg.coin[m][f] => reg'.coin[m][f]
              /\ reg.coin[m].tokensHeld # NilTokens =>
                      reg'.coin[m].tokensHeld = reg.coin[m].tokensHeld]_vars

\* both assets were admitted and are in the map, one flagged by
\* setCreatorSold and being sold, the other with its purchase recorded
C27_Witness ==
    /\ reg.pendingCoins = RegMints
    /\ \A m \in RegMints : admitted(m)
    /\ reg.coin["mintA"].creatorSold /\ reg.coin["mintA"].isSellingCoin
    /\ reg.coin["mintB"].botPurchased /\ reg.coin["mintB"].exitedBuyCoin

\* the function that acts in this step holds pendingCoinsLock
actorHoldsLock ==
    \/ \E m \in RegMints :
           reg'.buy[m] # reg.buy[m] /\ reg.lock = <<"addNewPendingCoin", m>>
    \/ \E m \in RegMints :
           reg'.mon[m] # reg.mon[m] /\ reg.lock = <<"setCreatorSold", m>>
    \/ reg'.scan # reg.scan /\ reg.lock = <<"fetchCoinsToSell", "none">>

\* C29: every write to a field of a record that is in the registry is made
\* by a function that holds pendingCoinsLock
C29_FieldWritesUnderLock ==
    [][\A m \in reg.pendingCoins : reg'.coin[m] # reg.coin[m] => actorHoldsLock]_vars

\* the record of asset c shows a purchase that is only partly written
partlyRecorded(c) ==
    \/ /\ coin[c].botPurchased
       /\ \/ coin[c].tokensHeld = NilTokens
          \/ coin[c].associatedTokenAccount = "zero"
          \/ coin[c].buyTransactionSignature = "nil"
    \/ botHoldsTokens(coin[c]) /\ coin[c].associatedTokenAccount = "zero"

\* the listener of asset c tests the flags of the record in this step, or a
\* scan looks at the record
observedInStep(c) ==
    \/ listenCreatorSellRecv(c)
    \/ c \in pendingCoins /\ HandleSellCoins

\* C28: neither the scan nor the listener ever looks at a record on which
\* botPurchased is true while tokensHeld, associatedTokenAccount or
\* buyTransactionSignature is still unset, or which counts as held while
\* associatedTokenAccount is unset
C28_PurchaseRecordedAtomically ==
    [][\A c \in Coins : observedInStep(c) => ~partlyRecorded(c)]_vars

\* the fields of the JitoManager that its goroutines share
JitoSharedFields ==
    {"slotIndex", "epoch", "slotLeader", "voteAccounts", "jitoValidators", "tipInfo"}

\* this step is the body of a function that took j.lock, up to its Unlock
lockedBodyInStep == jito.lock # "free" /\ jito'.lock = "free"

\* C30: every write of a shared field of the JitoManager is made by a
\* function that holds j.lock
C30_SharedFieldsUnderLock ==
    [][\A f \in JitoSharedFields : jito'[f] # jito[f] => lockedBodyInStep]_vars

\* the number of positions of a list that hold instruction x
Occurrences(instructions, x) ==
    Cardinality({i \in DOMAIN instructions : instructions[i] = x})

\* C31: a dispatched transaction carries exactly one of the compute-unit
\* price instruction and the tip instruction; it carries the tip exactly
\* when it goes out over the jito path, and it goes out over the jito path
\* only if isJitoLeader returned true for the attempt and, for a sell,
\* sendVanilla was false
C31_FeeOrTipByPath ==
    route.via # "none" =>
        /\ Occurrences(route.instructions, "cup") + Occurrences(route.instructions, "tip") = 1
        /\ Occurrences(route.instructions, "tip") = 1 <=> route.via = "jito"
        /\ route.via = "jito" => isJitoLeader(route.j) /\ ~route.sendVanilla
        /\ Occurrences(route.instructions, "cul") = 1
        /\ Occurrences(route.instructions, route.kind) = 1

\* a purchase that creates the token account went out as a bundle, with the
\* tip in place of the priority fee
C31_Witness ==
    /\ route.via = "jito" /\ route.kind = "buy"
    /\ route.instructions = <<"cul", "ata", "buy", "tip">>

\* C32: a notification that arrives after BuyCoin has exited without a
\* purchase ends the listener: it makes no lookup and leaves creatorSold as
\* it is, and on its way out it releases the subscription and sets
\* exitedCreatorListener
C32_StopsAfterFailedPurchase ==
    /\ [][\A c \in Coins :
              (listenCreatorSellRecv(c) /\ coin[c].exitedBuyCoin /\ ~coin[c].botPurchased) =>
                  monitorLeaves(c, {"stop"}) /\ coin' = coin]_vars
    /\ [][\A c \in Coins :
              (monitorLeaving(c, {"stop"}) /\ mon'[c] # mon[c]) =>
                  /\ mon'[c].pc = "done" /\ ~mon'[c].subscribed
                  /\ coin'[c] = [coin[c] EXCEPT !.exitedCreatorListener = TRUE]]_vars

\* the listener is on its way out after such a notification, with
\* creatorSold still false
C32_Witness ==
    \E c \in Coins :
        /\ monitorLeaving(c, {"stop"}) /\ mon[c].subscribed
        /\ coin[c].exitedBuyCoin /\ ~coin[c].botPurchased /\ ~coin[c].creatorSold

\* C33: for one notification the listener makes at most MaxCheckAttempts
\* lookups, failed ones included: inside the lookup loop the number of
\* completed passes stays below MaxCheckAttempts, every pass either counts
\* one more or leaves the loop, and the last pass leaves it
C33_LookupsBounded ==
    /\ [](\A c \in Coins :
              mon[c].pc = "lookup" => mon[c].checkAttempts \in 0..(MaxCheckAttempts - 1))
    /\ [][\A c \in Coins :
              (mon[c].pc = "lookup" /\ mon'[c] # mon[c]) =>
                  \/ /\ mon'[c].pc = "lookup"
                     /\ mon'[c].checkAttempts = mon[c].checkAttempts + 1
                  \/ mon'[c].pc \in {"recv", "exit"}]_vars

\* the listener is about to make the last lookup of a notification
C33_Witness ==
    \E c \in Coins :
        mon[c].pc = "lookup" /\ mon[c].checkAttempts = MaxCheckAttempts - 1

\* the responses inspected so far that name a funder, in order
contributing(n) ==
    {i \in 1..n : /\ find.responses[i].ok
                  /\ \E k \in 1..Len(find.responses[i].instructions) :
                        isFunderTransfer(find.responses[i].instructions[k], find.creatorAddress)}

\* C34: findFundersFromResps with cap FundersLimit returns at most
\* FundersLimit addresses; each is the sender of a transfer, made by another
\* address than the creator, of more than 0.05 SOL, found in an inspected
\* transaction; a transaction adds at most one address; and when the cap is
\* reached the last inspected transaction is the one that reached it
C34_FundersCappedAndQualified ==
    /\ [](find.pc = "done" =>
            /\ Len(find.funders) <= FundersLimit
            /\ Len(find.funders) = Cardinality(contributing(find.idx))
            /\ \A n \in 1..Len(find.funders) :
                  \E i \in contributing(find.idx) :
                     \E k \in 1..Len(find.responses[i].instructions) :
                        /\ isFunderTransfer(find.responses[i].instructions[k], find.creatorAddress)
                        /\ find.responses[i].instructions[k].from = find.funders[n]
            /\ Len(find.funders) = FundersLimit => find.idx \in contributing(find.idx)
            /\ Len(find.funders) < FundersLimit => find.idx = Len(find.responses))
    /\ [][Len(find'.funders) <= Len(find.funders) + 1 /\ find'.idx <= find.idx + 1]_vars

\* the scan returned at the cap with responses left that name a funder
C34_Witness ==
    /\ find.pc = "done" /\ Len(find.funders) = FundersLimit
    /\ find.idx < Len(find.responses)
    /\ \E i \in (find.idx + 1)..Len(find.responses) :
          find.responses[i].ok /\ checkHasFunder(find.responses[i].instructions, find.creatorAddress) # ""

\* the fields of the record of c outside `fields` are the same after the step
sameExcept(c, fields) ==
    \A f \in (DOMAIN coin[c]) \ fields : coin'[c][f] = coin[c][f]

\* C35: every component writes only its own fields of a record: the creator
\* listener creatorSold and exitedCreatorListener; a SellCoinFast race
\* isSellingCoin and exitedSellCoin (so tokensHeld, botPurchased and
\* creatorSold stay, also when the race ends after a confirmed sale); BuyCoin
\* the purchase fields, botPurchased and exitedBuyCoin; and the scan of
\* HandleSellCoins writes no field and only removes records
C35_ComponentsKeepToOwnFields ==
    [][/\ \A c \in Coins :
            /\ mon'[c] # mon[c] =>
                  sameExcept(c, {"creatorSold", "exitedCreatorListener"})
            /\ (\E r \in Races : race'[r] # race[r] /\ race'[r].coin = c) =>
                  sameExcept(c, {"isSellingCoin", "exitedSellCoin"})
            /\ buy'[c] # buy[c] =>
                  sameExcept(c, {"buyPrice", "tokensHeld", "associatedTokenAccount",
                                 "buyTransactionSignature", "botPurchased", "exitedBuyCoin"})
            /\ coin'[c] # coin[c] =>
                  \/ mon'[c] # mon[c] \/ buy'[c] # buy[c]
                  \/ \E r \in Races : race'[r] # race[r] /\ race'[r].coin = c
       /\ HandleSellCoins => coin' = coin /\ pendingCoins' \subseteq pendingCoins]_vars

\* a race has ended after a confirmed sale and the record still says the
\* tokens are held, purchased and sold by the creator
C35_Witness ==
    \E r \in Races :
        /\ race[r].pc = "done" /\ race[r].coin \in Coins
        /\ coin[race[r].coin].exitedSellCoin /\ coin[race[r].coin].isSellingCoin
        /\ botHoldsTokens(coin[race[r].coin])
        /\ coin[race[r].coin].botPurchased /\ coin[race[r].coin].creatorSold

\* C36: fetchEpochInfo starts a refresh of the leader schedule when the
\* polled epoch differs from j.epoch; j.epoch changes only in the step that
\* follows a completed buildLeaderSchedule of that refresh, and then to the
\* polled epoch; a failed refresh leaves j.epoch as it was, still different
\* from the polled epoch
C36_EpochStoredAfterRefresh ==
    /\ [][(jito.epochPc = "compare" /\ jito.epoch # jito.schedEpoch /\ jito'.epochPc # "compare") =>
              jito'.epochPc = "schedule" /\ jito'.epoch = jito.epoch]_vars
    /\ [][(jito'.epochPc = "setEpoch" /\ jito.epochPc # "setEpoch") =>
              /\ jito.epochPc = "building" /\ holdsLock("buildLeaderSchedule")
              /\ jito'.lock = "free" /\ jito'.epoch = jito.epoch]_vars
    /\ [][jito'.epoch # jito.epoch =>
              jito.epochPc = "setEpoch" /\ jito'.epoch = jito.schedEpoch]_vars
    /\ [][(jito.epochPc = "schedule" /\ jito'.epochPc = "idle") =>
              jito'.epoch = jito.epoch /\ jito'.epoch # jito'.schedEpoch]_vars

\* a poll has ended with a failed refresh: the stored epoch is not the
\* polled one
C36_Witness ==
    jito.epochPc = "idle" /\ jito.epoch # jito.schedEpoch

\* the epoch in which the stored slotIndex was polled: fetchEpochInfo takes
\* SlotIndex and Epoch from the same GetEpochInfo answer
slotIndexEpoch == jito.schedEpoch

\* C38: whenever isJitoLeader is about to look j.slotIndex up in
\* j.slotLeader, the slot index was polled in the epoch the stored leader
\* schedule was fetched in
C38_SlotAndScheduleSameEpoch ==
    (holdsLock("isJitoLeader") /\ jito.slotLeader # EmptyMap) => slotIndexEpoch = jito.leaderEpoch

\* BuyCoin has had its transaction accepted and is writing the purchase of
\* a quantity that counts as held to the record of c, or the purchase is
\* written and the tokens are held
acquisitionSucceeding(c) ==
    \/ /\ buy[c].pc \in {"setBotPurchased", "setTokensHeld", "setATA", "setSignature", "return"}
       /\ buy[c].tokensToBuy > HoldThreshold
    \/ coin[c].botPurchased /\ botHoldsTokens(coin[c])

\* C37: the per-notification test of the listener never makes it return,
\* with creatorSold unset, for an asset whose purchase is being recorded or
\* is recorded and held
C37_NoUnflaggedExitWhileAcquiring ==
    [][\A c \in Coins :
          (listenCreatorSellRecv(c) /\ mon'[c].pc = "exit") => ~acquisitionSucceeding(c)]_vars

\* the checkAndSignalBuyCoin goroutines of the message that have offered or
\* handed over a candidate
candidatesSent == {i \in DOMAIN logs.checks : logs.checks[i] \in {"send", "signalled"}}

\* C39: one log message yields at most one candidate for its mint, however
\* many of its entries are mint logs, and addNewPendingCoin never stores a
\* record for the mint while the tasks of an earlier record of it are running
C39_OneCandidateOneRecord ==
    /\ [](Cardinality(candidatesSent) <= 1)
    /\ [][\A k \in DOMAIN logs.purchases :
              (logs.purchases[k] = "spawned" /\ logs'.purchases[k] = "running") =>
                  \A j \in DOMAIN logs.purchases : logs.purchases[j] # "running"]_vars

\* listenCreatorSell or BuyCoin of asset c has been started
tasksStarted(c) == mon[c].pc # "idle" \/ buy[c].pc \notin {"none", "queued"}

\* the record of c meets one of the two conditions under which a scan
\* deletes a key
removable(c) ==
    \/ coin[c].exitedBuyCoin /\ ~botHoldsTokens(coin[c])
    \/ coin[c].exitedSellCoin /\ coin[c].exitedCreatorListener

====
